---- MODULE Spec2Model ----
(***************************************************************************)
(* A model of the manga page constructor: the panel collection, the        *)
(* pointer-driven interaction state machine of PageConstructor             *)
(* (page_constructor.py), its undo/redo history and the application        *)
(* commands of MangaConstructorApp (main.py) that edit the collection, and  *)
(* the page export of ExportManager (export_manager.py), whose worker       *)
(* thread runs beside the editor.                                           *)
(*                                                                         *)
(* Panels are Python objects: the live collection, the selection list and  *)
(* the content-pan session hold references, so the model keeps a heap      *)
(* (objs: object number -> Panel fields) and lists of object numbers.      *)
(* History snapshots and the clipboard are deep copies, kept as lists of   *)
(* field records; beside each snapshot the model keeps, entry by entry, which *)
(* object holds the fields: the snapshot's own copy or an object of the heap.*)
(* Coordinates are integers (page units); the pointer is   *)
(* drawn from a small set of canvas points.                                *)
(***************************************************************************)
EXTENDS Integers, Sequences, FiniteSets, TLC

VARIABLES
    objs,                \* heap of live Panel objects: object number -> fields
    panels,              \* self.panels: list of object numbers
    selected_panels,     \* self.selected_panels: list of object numbers
    selection_handles,   \* self.selection_handles: list of SelectionHandle
    current_tool,        \* self.current_tool
    snap_to_grid,        \* self.snap_to_grid
    dragging,            \* self.dragging
    drag_mode,           \* self.drag_mode
    resize_handle,       \* self.resize_handle
    drag_start,          \* (self.drag_start_x, self.drag_start_y), screen
    panel_drag_initial_states, \* panel id -> (x, y, width, height)
    page_drag_start_coords,    \* page point where a Move gesture started
    creation_panel_type, \* self.creation_panel_type
    image_editing_panel, \* content-pan session: object number or NoObj
    image_pan_start,     \* [off, mouse]: offsets and page point at pan start
    tail_move_panel,     \* the bubble whose tail end is dragged, or NoObj
    tail_root_move_panel, \* the bubble whose tail root is dragged, or NoObj
    tail_root_drag_end,  \* (tail_root_drag_end_x, tail_root_drag_end_y), page
    undo_stack,          \* self.undo_stack: list of snapshots
    redo_stack,          \* self.redo_stack
    undo_refs,           \* per undo snapshot entry: the object that holds it
    redo_refs,           \* the same for the redo stack
    image_tk_cache,      \* keys of self.image_tk_cache
    pil_image_cache,     \* panel ids having an entry in self.pil_image_cache
    clipboard_panels,    \* app.clipboard_panels: list of field records
    export_pc,           \* where the export worker thread is
    cancel_export,       \* ExportManager.cancel_export
    settings,            \* ExportManager.settings, as collected at the start
    export_panels,       \* the worker's local `panels`: list of object numbers
    export_k,            \* how many of export_panels the render loop has done
    export_out,          \* what the render loop computed, panel by panel
    export_image,        \* size of the image being rendered, or NoPage
    export_file,         \* the output file: "none" or "saved"
    progress,            \* ExportManager.progress: completed / error
    export_start,        \* observer: the heap and panel list at start_export
    status,              \* observer: the outcome of the last command
    pressed,             \* environment: mouse button 1 is held down
    pointer,             \* environment: last pointer position (screen)
    drag_steps,          \* environment: <B1-Motion> events since the press
    clicked_once,        \* environment: the last pointer gesture was a click
    hist_ends,           \* observer: per undo snapshot, the document when its handler ended
    hist_ends_redo,      \* observer: the same for the redo stack
    ur_run,              \* observer: the current undo^m redo^m run
    canvas_view,         \* zoom, margin and the canvas point at the window's corner
    probe                \* environment: the last page point converted, and the results

vars == << objs, panels, selected_panels, selection_handles, current_tool,
           snap_to_grid, dragging, drag_mode, resize_handle, drag_start,
           panel_drag_initial_states, page_drag_start_coords,
           creation_panel_type, image_editing_panel, image_pan_start,
           tail_move_panel, tail_root_move_panel, tail_root_drag_end,
           undo_stack, redo_stack, undo_refs, redo_refs, image_tk_cache,
           pil_image_cache, clipboard_panels, export_pc, cancel_export,
           settings, export_panels, export_k, export_out, export_image,
           export_file, progress, export_start, status, pressed, pointer, drag_steps, clicked_once,
           hist_ends, hist_ends_redo, ur_run, canvas_view, probe >>

-----------------------------------------------------------------------------
(* Bounds of the model *)

\* most live panels on the page
MaxPanels == 2
\* longest undo stack a session of the editor model builds
MaxHist == 3
\* highest layer number the layer-up command is followed to
MaxLayer == 1
\* most <B1-Motion> events between a press and its release
MaxDrags == 1
\* deepest run of undos a long session makes
MaxLongUndo == 2
\* most panels whose image the render cache holds when an image is applied
MaxCached == 2
\* longest undo stack a session that locks a panel builds
MaxLockHist == 5
\* longest undo stack a session that drags the tail of a bubble builds
MaxTailHist == 4
\* most snapshots the two stacks of a project session hold together
MaxProjHist == 2
\* rightmost left edge of a panel that is pasted
MaxPasteX == 50

(* Program constants *)

MAX_HISTORY_SIZE == 50
page_width == 595
page_height == 842
margin == 20
zoom == 1
grid_size == 50
min_page_size == 20
MIN_CREATE_SIZE == 10
HANDLE_SIZE == 8
tail_handle_r == 6

NoObj == 0
NoImage == 0
\* In undo_refs and redo_refs: the entry is an object copy.deepcopy made for
\* this snapshot, which no other list refers to
OwnCopy == 0
NoHandle == [handle_type |-> "", x2 |-> 0, y2 |-> 0, owner |-> 0]
NoneMode == "none"

Tools == {"select", "panel", "text", "speech"}

-----------------------------------------------------------------------------
(* Small helpers *)

Max(a, b) == IF a >= b THEN a ELSE b
Min(a, b) == IF a <= b THEN a ELSE b
Last(s) == s[Len(s)]
Front(s) == SubSeq(s, 1, Len(s) - 1)
Range(s) == {s[i] : i \in 1..Len(s)}
SetMax(S) == CHOOSE m \in S : \A n \in S : n <= m
SetMin(S) == CHOOSE m \in S : \A n \in S : m <= n

\* Python's round(n / d) for integers n and d > 0: to nearest, ties to even
PyRound(n, d) ==
    LET q == n \div d
        r == n % d
    IN  IF 2 * r < d THEN q
        ELSE IF 2 * r > d THEN q + 1
        ELSE IF q % 2 = 0 THEN q ELSE q + 1

-----------------------------------------------------------------------------
(* The Panel dataclass and the editor state *)

\* Panel(...) with the dataclass defaults; image_scale counts wheel notches
\* (the scale is 1.1 ^ image_scale), tail_* are the speech-bubble tail offsets
\* An angle that is a multiple of pi/2, as << cos, sin >>; pi/2 is the lowest
\* point of the bubble
HalfPi == << 0, 1 >>

\* Twice the page point where the tail of bubble p leaves its oval
tail_root2(p) ==
    << 2 * p.x + p.width + p.width * p.tail_root_angle[1],
       2 * p.y + p.height + p.height * p.tail_root_angle[2] >>

Panel(id, x, y, width, height, panel_type, layer) ==
    [ id |-> id, x |-> x, y |-> y, width |-> width, height |-> height,
      panel_type |-> panel_type, layer |-> layer,
      visible |-> TRUE, locked |-> FALSE,
      content_image |-> NoImage, content_text |-> "",
      selected |-> FALSE, tail_dx |-> 10, tail_dy |-> 20,
      tail_root_angle |-> HalfPi,
      image_offset_x |-> 0, image_offset_y |-> 0, image_scale |-> 0,
      flag |-> FALSE ]

\* The fields of a panel that make up the document: every field but the
\* transient selection flag and the cache-invalidation flag
Doc(p) == [p EXCEPT !.selected = FALSE, !.flag = FALSE]
DocList(ps) == [i \in 1..Len(ps) |-> Doc(ps[i])]

\* Panel.contains_point
contains_point(p, px, py) ==
    /\ p.x <= px /\ px <= p.x + p.width
    /\ p.y <= py /\ py <= p.y + p.height

\* The editor as one record, so that a handler is a function of the state
S == [ objs |-> objs, panels |-> panels, selected_panels |-> selected_panels,
       selection_handles |-> selection_handles, current_tool |-> current_tool,
       snap_to_grid |-> snap_to_grid, dragging |-> dragging,
       drag_mode |-> drag_mode, resize_handle |-> resize_handle,
       drag_start |-> drag_start,
       panel_drag_initial_states |-> panel_drag_initial_states,
       page_drag_start_coords |-> page_drag_start_coords,
       creation_panel_type |-> creation_panel_type,
       image_editing_panel |-> image_editing_panel,
       image_pan_start |-> image_pan_start,
       tail_move_panel |-> tail_move_panel,
       tail_root_move_panel |-> tail_root_move_panel,
       tail_root_drag_end |-> tail_root_drag_end,
       undo_stack |-> undo_stack, redo_stack |-> redo_stack,
       undo_refs |-> undo_refs, redo_refs |-> redo_refs,
       image_tk_cache |-> image_tk_cache, pil_image_cache |-> pil_image_cache,
       clipboard_panels |-> clipboard_panels,
       export_panels |-> export_panels,
       commits |-> 0, cleared |-> FALSE, returned |-> "none" ]

\* The live panel list as field records, in list order
Live(s) == [i \in 1..Len(s.panels) |-> s.objs[s.panels[i]]]
LivePanels == Live(S)

\* copy.deepcopy of a list of panel objects: equal fields, new objects
deepcopy(s, seq) == [i \in 1..Len(seq) |-> s.objs[seq[i]]]

\* The objects of a list copy.deepcopy returned: each the list's own
own_copies(n) == [i \in 1..n |-> OwnCopy]

\* `o in seq` for a list of Panel objects: identity, or dataclass equality
In(s, o, seq) ==
    \E i \in 1..Len(seq) : seq[i] = o \/ s.objs[seq[i]] = s.objs[o]

\* list.remove(o): drops the first element equal to o
Remove(s, o, seq) ==
    LET hit == {i \in 1..Len(seq) : seq[i] = o \/ s.objs[seq[i]] = s.objs[o]}
        k == SetMin(hit)
    IN  IF hit = {} THEN seq
        ELSE SubSeq(seq, 1, k - 1) \o SubSeq(seq, k + 1, Len(seq))

\* Object numbers not yet on the heap, the n smallest, as a sequence
FreshObjs(s, n) ==
    LET free == (1..(Cardinality(DOMAIN s.objs) + n)) \ DOMAIN s.objs
        F[k \in 0..n] ==
            IF k = 0 THEN << >>
            ELSE Append(F[k - 1], SetMin(free \ Range(F[k - 1])))
    IN  F[n]

\* uuid.uuid4(): an id no panel, snapshot, clipboard entry or cache key has
UsedIds(s) ==
    {s.objs[o].id : o \in DOMAIN s.objs}
    \cup UNION {{p.id : p \in Range(snap)} : snap \in Range(s.undo_stack)}
    \cup UNION {{p.id : p \in Range(snap)} : snap \in Range(s.redo_stack)}
    \cup {p.id : p \in Range(s.clipboard_panels)}
    \cup {k.id : k \in s.image_tk_cache} \cup s.pil_image_cache
uuid4(s) == SetMin((1..(Cardinality(UsedIds(s)) + 1)) \ UsedIds(s))

-----------------------------------------------------------------------------
(* Coordinates *)

\* screen_to_page, with the canvas scrolled to its origin
screen_to_page(sx, sy) == << (sx - margin) \div zoom, (sy - margin) \div zoom >>

\* page_to_screen
page_to_screen(px, py) == << px * zoom + margin, py * zoom + margin >>

\* A float, kept exactly as a fraction n/d in lowest terms with d > 0
Rat(n, d) == [n |-> n, d |-> d]
Whole(i) == Rat(i, 1)
RECURSIVE Gcd(_, _)
Gcd(a, b) == IF b = 0 THEN a ELSE Gcd(b, a % b)
Abs(a) == IF a >= 0 THEN a ELSE -a
Lowest(n, d) ==
    LET g == Gcd(Abs(n), Abs(d))
    IN  IF d > 0 THEN Rat(n \div g, d \div g) ELSE Rat((-n) \div g, (-d) \div g)
RatEq(a, b) == Lowest(a.n, a.d) = Lowest(b.n, b.d)
RatAdd(a, b) == Lowest(a.n * b.d + b.n * a.d, a.d * b.d)
RatSub(a, b) == Lowest(a.n * b.d - b.n * a.d, a.d * b.d)
RatMul(a, b) == Lowest(a.n * b.n, a.d * b.d)
RatDiv(a, b) == Lowest(a.n * b.d, a.d * b.n)

\* canvas.canvasx, canvas.canvasy: a window coordinate as a canvas
\* coordinate; xview, yview are the canvas coordinates of the window's corner
canvasx(v, screen_x) == RatAdd(screen_x, Whole(v.xview))
canvasy(v, screen_y) == RatAdd(screen_y, Whole(v.yview))

\* screen_to_page without the canvasx, canvasy calls
screen_to_page_at_origin(v, screen_x, screen_y) ==
    << RatDiv(RatSub(screen_x, Whole(v.margin)), v.zoom),
       RatDiv(RatSub(screen_y, Whole(v.margin)), v.zoom) >>

\* screen_to_page at any zoom, margin and scroll position
screen_to_page_at(v, screen_x, screen_y) ==
    << RatDiv(RatSub(canvasx(v, screen_x), Whole(v.margin)), v.zoom),
       RatDiv(RatSub(canvasy(v, screen_y), Whole(v.margin)), v.zoom) >>

\* page_to_screen at any zoom and margin
page_to_screen_at(v, page_x, page_y) ==
    << RatAdd(RatMul(page_x, v.zoom), Whole(v.margin)),
       RatAdd(RatMul(page_y, v.zoom), Whole(v.margin)) >>

\* set_zoom; zoom_level in hundredths, clamped to [0.01, 10.0]
set_zoom(v, zoom_level) ==
    LET new_zoom == Max(1, Min(1000, zoom_level))
    IN  IF new_zoom # v.zoom.n THEN [v EXCEPT !.zoom = Rat(new_zoom, 100)]
        ELSE v

\* No point converted yet
StartView == [zoom |-> Rat(100, 100), margin |-> margin, xview |-> 0, yview |-> 0]
NoProbe ==
    [page |-> << 0, 0 >>, view |-> StartView, screen |-> << >>, back |-> << >>]

\* snap_to_grid_coords, one coordinate
snap_coord(s, v) ==
    IF s.snap_to_grid /\ grid_size > 0
    THEN PyRound(v, grid_size) * grid_size
    ELSE v

-----------------------------------------------------------------------------
(* Selection, render cache, repaint *)

\* select_panel
select_panel(s, o) ==
    IF In(s, o, s.selected_panels) THEN s
    ELSE [s EXCEPT !.objs[o].selected = TRUE,
                   !.selected_panels = Append(@, o)]

\* clear_selection
clear_selection(s) ==
    [s EXCEPT !.objs = [o \in DOMAIN s.objs |->
                           IF o \in Range(s.selected_panels)
                           THEN [s.objs[o] EXCEPT !.selected = FALSE]
                           ELSE s.objs[o]],
              !.selected_panels = << >>,
              !.selection_handles = << >>]

\* The key draw_*_panel builds for a panel's PhotoImage: the panel id, then
\* the variant, the on-screen size, the content offset and scale
cache_key(p) ==
    [ id |-> p.id, suffix |-> p.panel_type,
      w |-> p.width * zoom, h |-> p.height * zoom,
      ox |-> p.image_offset_x, oy |-> p.image_offset_y, sc |-> p.image_scale ]

\* clear_specific_image_tk_cache: drops every key starting with the id
clear_specific_image_tk_cache(s, id) ==
    [s EXCEPT !.image_tk_cache = {k \in @ : k.id # id}]

\* clear_specific_pil_image_cache
clear_specific_pil_image_cache(s, id) ==
    [s EXCEPT !.pil_image_cache = @ \ {id}]

\* clear_panel_image_cache: drops the key that IS the id (no key built by
\* cache_key is one: each carries a suffix), and the decoded image
clear_panel_image_cache(s, id) ==
    [s EXCEPT !.image_tk_cache = {k \in @ : ~(k.id = id /\ k.suffix = "")},
              !.pil_image_cache = @ \ {id}]

\* The image part of draw_rectangular_panel / draw_round_panel for one panel
draw_panel(s, o) ==
    LET p == s.objs[o]
        s1 == IF p.flag
              THEN [clear_specific_image_tk_cache(s, p.id)
                        EXCEPT !.objs[o].flag = FALSE]
              ELSE s
    IN  IF p.width * zoom <= 0 \/ p.height * zoom <= 0 THEN s
        ELSE IF p.content_image = NoImage THEN s
        ELSE IF cache_key(p) \in s1.image_tk_cache THEN s1
        ELSE [s1 EXCEPT !.image_tk_cache =
                            {k \in @ : p.id \in s1.pil_image_cache \/ k.id # p.id}
                            \cup {cache_key(p)},
                        !.pil_image_cache = @ \cup {p.id}]

\* The eight handles draw_selection lays around one selected panel; x2, y2
\* are twice the canvas coordinates (the edge midpoints may fall on halves)
handles_of(p) ==
    LET a == page_to_screen(p.x, p.y)
        b == page_to_screen(p.x + p.width, p.y + p.height)
        x1 == a[1]  y1 == a[2]  x2 == b[1]  y2 == b[2]
        H(t, hx, hy) == [handle_type |-> t, x2 |-> hx, y2 |-> hy, owner |-> p.id]
    IN  << H("nw", 2 * x1, 2 * y1), H("n", x1 + x2, 2 * y1),
           H("ne", 2 * x2, 2 * y1), H("e", 2 * x2, y1 + y2),
           H("se", 2 * x2, 2 * y2), H("s", x1 + x2, 2 * y2),
           H("sw", 2 * x1, 2 * y2), H("w", 2 * x1, y1 + y2) >>

\* draw_selection
draw_selection(s) ==
    LET sel == s.selected_panels
        F[k \in 0..Len(sel)] ==
            IF k = 0 THEN << >> ELSE F[k - 1] \o handles_of(s.objs[sel[k]])
    IN  [s EXCEPT !.selection_handles = F[Len(sel)]]

\* Indices of s.panels in the order sorted(self.panels, key=layer) gives:
\* ascending layer, equal layers in list order (the sort is stable)
paint_order(s) ==
    LET n == Len(s.panels)
        before(i, j) ==
            \/ s.objs[s.panels[i]].layer < s.objs[s.panels[j]].layer
            \/ /\ s.objs[s.panels[i]].layer = s.objs[s.panels[j]].layer
               /\ i < j
    IN  [k \in 1..n |->
            CHOOSE i \in 1..n : Cardinality({j \in 1..n : before(j, i)}) = k - 1]

\* redraw: the visible panels in ascending layer order, then the selection
redraw(s) ==
    LET ord == paint_order(s)
        F[k \in 0..Len(ord)] ==
            IF k = 0 THEN s
            ELSE IF F[k - 1].objs[s.panels[ord[k]]].visible
                 THEN draw_panel(F[k - 1], s.panels[ord[k]])
                 ELSE F[k - 1]
    IN  draw_selection(F[Len(ord)])

\* find_panel_at_point: sorted(..., reverse=True) keeps equal layers in list
\* order, so the first hit is the highest layer, earliest in the list
find_panel_at_point(s, px, py) ==
    LET n == Len(s.panels)
        hit == {i \in 1..n : /\ s.objs[s.panels[i]].visible
                             /\ contains_point(s.objs[s.panels[i]], px, py)}
        top == SetMax({s.objs[s.panels[i]].layer : i \in hit})
    IN  IF hit = {} THEN NoObj
        ELSE s.panels[SetMin({i \in hit : s.objs[s.panels[i]].layer = top})]

-----------------------------------------------------------------------------
(* History *)

\* A save_history_state that, over the cap, drops the snapshot just pushed
\* instead of the oldest
save_history_state_drops_newest(s) ==
    LET pushed == Append(s.undo_stack, deepcopy(s, s.panels))
        refs == Append(s.undo_refs, own_copies(Len(s.panels)))
    IN  [s EXCEPT !.redo_stack = << >>,
                  !.redo_refs = << >>,
                  !.undo_stack = IF Len(pushed) > MAX_HISTORY_SIZE
                                 THEN Front(pushed) ELSE pushed,
                  !.undo_refs = IF Len(pushed) > MAX_HISTORY_SIZE
                                THEN Front(refs) ELSE refs,
                  !.commits = @ + 1]

\* A save_history_state that leaves the redo stack as it is
save_history_state_keeps_redo(s) ==
    LET pushed == Append(s.undo_stack, deepcopy(s, s.panels))
        refs == Append(s.undo_refs, own_copies(Len(s.panels)))
    IN  [s EXCEPT !.undo_stack = IF Len(pushed) > MAX_HISTORY_SIZE
                                 THEN Tail(pushed) ELSE pushed,
                  !.undo_refs = IF Len(pushed) > MAX_HISTORY_SIZE
                                THEN Tail(refs) ELSE refs,
                  !.commits = @ + 1]

\* save_history_state
save_history_state(s) ==
    LET pushed == Append(s.undo_stack, deepcopy(s, s.panels))
        refs == Append(s.undo_refs, own_copies(Len(s.panels)))
    IN  [s EXCEPT !.redo_stack = << >>,
                  !.redo_refs = << >>,
                  !.undo_stack = IF Len(pushed) > MAX_HISTORY_SIZE
                                 THEN Tail(pushed) ELSE pushed,
                  !.undo_refs = IF Len(pushed) > MAX_HISTORY_SIZE
                                THEN Tail(refs) ELSE refs,
                  !.commits = @ + 1]

\* self.panels = copy.deepcopy(snapshot): new objects with the fields saved
restore(s, snapshot) ==
    LET new == FreshObjs(s, Len(snapshot))
    IN  [s EXCEPT !.objs = [o \in DOMAIN s.objs \cup Range(new) |->
                               IF o \in DOMAIN s.objs THEN s.objs[o]
                               ELSE snapshot[CHOOSE i \in 1..Len(new) : new[i] = o]],
                  !.panels = new]


\* A _post_history_change_update that leaves the PhotoImage cache as it is
post_history_change_update_keeps_cache(s) ==
    redraw(clear_selection([s EXCEPT !.image_editing_panel = NoObj]))

\* _post_history_change_update
post_history_change_update(s) ==
    redraw([clear_selection([s EXCEPT !.image_editing_panel = NoObj])
                EXCEPT !.image_tk_cache = {}])

\* An undo_action that makes the snapshot itself the live list:
\* self.panels = previous_state, without the deep copy
undo_action_aliases_snapshot(s) ==
    IF Len(s.undo_stack) > 1
    THEN LET s1 == [s EXCEPT !.undo_stack = Front(@),
                             !.redo_stack = Append(@, Last(s.undo_stack)),
                             !.undo_refs = Front(@),
                             !.redo_refs = Append(@, Last(s.undo_refs))]
             s2 == restore(s1, Last(s1.undo_stack))
             s3 == [s2 EXCEPT !.undo_refs[Len(s2.undo_refs)] = s2.panels]
         IN  [post_history_change_update(s3) EXCEPT !.returned = "true"]
    ELSE [s EXCEPT !.returned = "false"]

\* undo_action: the popped snapshot moves to the redo stack, the live list
\* becomes a deep copy of the snapshot now on top
undo_action(s) ==
    IF Len(s.undo_stack) > 1
    THEN LET s1 == [s EXCEPT !.undo_stack = Front(@),
                             !.redo_stack = Append(@, Last(s.undo_stack)),
                             !.undo_refs = Front(@),
                             !.redo_refs = Append(@, Last(s.undo_refs))]
             s2 == restore(s1, Last(s1.undo_stack))
         IN  [post_history_change_update(s2) EXCEPT !.returned = "true"]
    ELSE [s EXCEPT !.returned = "false"]

\* A redo_action that refreshes the view also when there is nothing to redo
redo_action_resets_view(s) ==
    IF s.redo_stack # << >>
    THEN LET state_to_restore == Last(s.redo_stack)
             pushed == Append(s.undo_stack, state_to_restore)
             refs == Append(s.undo_refs, own_copies(Len(state_to_restore)))
             s1 == [s EXCEPT !.redo_stack = Front(@),
                             !.redo_refs = Front(@),
                             !.undo_stack = IF Len(pushed) > MAX_HISTORY_SIZE
                                            THEN Tail(pushed) ELSE pushed,
                             !.undo_refs = IF Len(pushed) > MAX_HISTORY_SIZE
                                           THEN Tail(refs) ELSE refs]
             s2 == restore(s1, state_to_restore)
         IN  [post_history_change_update(s2) EXCEPT !.returned = "true"]
    ELSE [post_history_change_update(s) EXCEPT !.returned = "false"]

\* redo_action
redo_action(s) ==
    IF s.redo_stack # << >>
    THEN LET state_to_restore == Last(s.redo_stack)
             pushed == Append(s.undo_stack, state_to_restore)
             refs == Append(s.undo_refs, own_copies(Len(state_to_restore)))
             s1 == [s EXCEPT !.redo_stack = Front(@),
                             !.redo_refs = Front(@),
                             !.undo_stack = IF Len(pushed) > MAX_HISTORY_SIZE
                                            THEN Tail(pushed) ELSE pushed,
                             !.undo_refs = IF Len(pushed) > MAX_HISTORY_SIZE
                                           THEN Tail(refs) ELSE refs]
             s2 == restore(s1, state_to_restore)
         IN  [post_history_change_update(s2) EXCEPT !.returned = "true"]
    ELSE [s EXCEPT !.returned = "false"]

-----------------------------------------------------------------------------
(* Editing operations of PageConstructor *)

\* create_panel: returns the state; the new panel is the last of s.panels
create_panel(s, x, y, width, height, panel_type) ==
    LET layer == IF s.panels # << >>
                 THEN SetMax({s.objs[o].layer : o \in Range(s.panels)}) + 1
                 ELSE 0
        o == FreshObjs(s, 1)[1]
        p == [Panel(uuid4(s), x, y, width, height, panel_type, layer)
                  EXCEPT !.flag = TRUE]
        s1 == [s EXCEPT !.objs = (o :> p) @@ s.objs,
                        !.panels = Append(@, o)]
    IN  save_history_state(select_panel(clear_selection(s1), o))

\* set_tool
set_tool(s, tool_name) ==
    redraw(clear_selection([s EXCEPT !.current_tool = tool_name]))

\* edit_panel_text; answer is what the dialog returns ("cancel": None)
edit_panel_text(s, o, answer) ==
    IF s.objs[o].locked THEN s
    ELSE IF answer = "cancel" THEN s
    ELSE IF s.objs[o].content_text # answer
         THEN redraw(save_history_state(
                  [s EXCEPT !.objs[o].content_text = answer]))
         ELSE s

\* The letters of a handle's name: `"n" in handle.handle_type`
handle_letters(handle_type) ==
    CASE handle_type = "n" -> {"n"}
      [] handle_type = "s" -> {"s"}
      [] handle_type = "e" -> {"e"}
      [] handle_type = "w" -> {"w"}
      [] handle_type = "ne" -> {"n", "e"}
      [] handle_type = "nw" -> {"n", "w"}
      [] handle_type = "se" -> {"s", "e"}
      [] handle_type = "sw" -> {"s", "w"}
      [] OTHER -> {}

\* resize_panel_with_handle
resize_panel_with_handle(s, o, handle_type, current_page_x, current_page_y) ==
    LET panel == s.objs[o]
        has(c) == c \in handle_letters(handle_type)
        orig_x1 == panel.x
        orig_y1 == panel.y
        orig_x2 == panel.x + panel.width
        orig_y2 == panel.y + panel.height
        sx == snap_coord(s, current_page_x)
        sy == snap_coord(s, current_page_y)
        ay1 == IF has("n") THEN sy ELSE orig_y1
        ay2 == IF has("s") THEN sy ELSE orig_y2
        ax1 == IF has("w") THEN sx ELSE orig_x1
        ax2 == IF has("e") THEN sx ELSE orig_x2
        \* the minimum size, horizontally
        bx1 == IF ax2 - ax1 < min_page_size
               THEN IF has("w") /\ ax1 > orig_x2 - min_page_size
                    THEN orig_x2 - min_page_size
                    ELSE IF has("e") /\ ax2 < orig_x1 + min_page_size
                    THEN ax1
                    ELSE IF has("w") THEN ax2 - min_page_size ELSE ax1
               ELSE ax1
        bx2 == IF ax2 - ax1 < min_page_size
               THEN IF has("w") /\ ax1 > orig_x2 - min_page_size
                    THEN ax2
                    ELSE IF has("e") /\ ax2 < orig_x1 + min_page_size
                    THEN orig_x1 + min_page_size
                    ELSE IF has("w") THEN ax2 ELSE ax1 + min_page_size
               ELSE ax2
        \* the minimum size, vertically
        by1 == IF ay2 - ay1 < min_page_size
               THEN IF has("n") /\ ay1 > orig_y2 - min_page_size
                    THEN orig_y2 - min_page_size
                    ELSE IF has("s") /\ ay2 < orig_y1 + min_page_size
                    THEN ay1
                    ELSE IF has("n") THEN ay2 - min_page_size ELSE ay1
               ELSE ay1
        by2 == IF ay2 - ay1 < min_page_size
               THEN IF has("n") /\ ay1 > orig_y2 - min_page_size
                    THEN ay2
                    ELSE IF has("s") /\ ay2 < orig_y1 + min_page_size
                    THEN orig_y1 + min_page_size
                    ELSE IF has("n") THEN ay2 ELSE ay1 + min_page_size
               ELSE ay2
        \* the page bounds
        cx == Max(0, bx1)
        cy == Max(0, by1)
        cw == IF cx + (bx2 - bx1) > page_width THEN page_width - cx ELSE bx2 - bx1
        ch == IF cy + (by2 - by1) > page_height THEN page_height - cy ELSE by2 - by1
        s1 == [s EXCEPT !.objs[o].x = cx, !.objs[o].y = cy,
                        !.objs[o].width = Max(min_page_size, cw),
                        !.objs[o].height = Max(min_page_size, ch),
                        !.objs[o].flag = TRUE]
    IN  clear_panel_image_cache(s1, panel.id)

-----------------------------------------------------------------------------
(* Pointer handlers *)

\* SelectionHandle.contains_point, on canvas coordinates
handle_contains_point(h, px, py) ==
    LET half_size == HANDLE_SIZE \div 2
    IN  /\ h.x2 - 2 * half_size <= 2 * px /\ 2 * px <= h.x2 + 2 * half_size
        /\ h.y2 - 2 * half_size <= 2 * py /\ 2 * py <= h.y2 + 2 * half_size

\* draw_speech_bubble: twice the canvas centres of the two round handles, at
\* the root of the tail and at its end
tail_root_handle2(p) ==
    << 2 * margin + tail_root2(p)[1] * zoom, 2 * margin + tail_root2(p)[2] * zoom >>

tail_end_handle2(p) ==
    << tail_root_handle2(p)[1] + 2 * p.tail_dx * zoom,
       tail_root_handle2(p)[2] + 2 * p.tail_dy * zoom >>

\* The canvas point lies in the round handle of centre c2 / 2
in_tail_handle(c2, ex, ey) ==
    (2 * ex - c2[1]) * (2 * ex - c2[1]) + (2 * ey - c2[2]) * (2 * ey - c2[2])
        <= 4 * tail_handle_r * tail_handle_r

\* clicked_canvas_item_has_tag for a point of the page, where find_closest
\* gives the topmost item under the point: the panel whose handle with
\* tag_suffix that item is, or NoObj. The selection handles lie above every
\* panel; of one bubble the root handle lies above the end handle, and both
\* above its body
clicked_canvas_item_has_tag(s, ex, ey, tag_suffix) ==
    LET pg == screen_to_page(ex, ey)
        ord == paint_order(s)
        bubble(p) == p.visible /\ p.panel_type = "speech_bubble"
        on_root(p) == bubble(p) /\ in_tail_handle(tail_root_handle2(p), ex, ey)
        on_end(p) == bubble(p) /\ in_tail_handle(tail_end_handle2(p), ex, ey)
        under(p) ==
            on_root(p) \/ on_end(p) \/ (p.visible /\ contains_point(p, pg[1], pg[2]))
        ks == {k \in 1..Len(ord) : under(s.objs[s.panels[ord[k]]])}
        top == s.panels[ord[SetMax(ks)]]
    IN  IF \E i \in 1..Len(s.selection_handles) :
               handle_contains_point(s.selection_handles[i], ex, ey)
        THEN NoObj
        ELSE IF ks = {} THEN NoObj
        ELSE IF on_root(s.objs[top])
        THEN IF tag_suffix = "_tail_root_handle" THEN top ELSE NoObj
        ELSE IF on_end(s.objs[top])
        THEN IF tag_suffix = "_tail_handle" THEN top ELSE NoObj
        ELSE NoObj

\* on_mouse_down, step 0, with the session closed and nothing saved
close_image_editing_unsaved(s) == [s EXCEPT !.image_editing_panel = NoObj]

\* on_mouse_down, step 0, on a press outside the panel of the content-pan
\* session: the session is closed and the history saved
close_image_editing(s) ==
    [save_history_state(s) EXCEPT !.image_editing_panel = NoObj]

\* on_mouse_down; ctrl is event.state & 4, answer what a text dialog returns
on_mouse_down(s, ex, ey, ctrl, answer) ==
    LET pg == screen_to_page(ex, ey)
        \* 1-c. select the panel under the pointer and start a Move
        start_move(picked, clicked_panel) ==
            IF In(picked, clicked_panel, picked.selected_panels)
            THEN [picked EXCEPT
                     !.drag_mode = "move", !.dragging = TRUE,
                     !.panel_drag_initial_states =
                         [id \in {picked.objs[o].id :
                                     o \in Range(picked.selected_panels)} |->
                             LET o == CHOOSE o \in Range(picked.selected_panels) :
                                          picked.objs[o].id = id
                             IN  << picked.objs[o].x, picked.objs[o].y,
                                    picked.objs[o].width, picked.objs[o].height >>],
                     !.page_drag_start_coords = pg]
            ELSE picked
        \* 5. back to the select tool, then the selection cleared
        step5b(s4) ==
            redraw(IF /\ s4.current_tool # "select"
                      /\ find_panel_at_point(s4, pg[1], pg[2]) = NoObj
                      /\ ~ctrl
                   THEN clear_selection(s4) ELSE s4)
        step5(s3) ==
            step5b(IF /\ s3.current_tool # "select"
                      /\ ~s3.dragging
                      /\ find_panel_at_point(s3, pg[1], pg[2]) = NoObj
                      /\ s3.image_editing_panel = NoObj
                   THEN set_tool(s3, "select") ELSE s3)
        \* 1.-4. the tool in use
        tools(s1, clicked_panel, hits) ==
            IF /\ s1.current_tool = "select"
               /\ clicked_canvas_item_has_tag(s1, ex, ey, "_tail_handle") # NoObj
            THEN [s1 EXCEPT
                     !.tail_move_panel =
                         clicked_canvas_item_has_tag(s1, ex, ey, "_tail_handle"),
                     !.drag_mode = "move_tail", !.dragging = TRUE]
            ELSE IF /\ s1.current_tool = "select"
                    /\ clicked_canvas_item_has_tag(s1, ex, ey, "_tail_root_handle")
                           # NoObj
            THEN LET o == clicked_canvas_item_has_tag(s1, ex, ey,
                                                     "_tail_root_handle")
                 IN  [s1 EXCEPT
                         !.tail_root_move_panel = o,
                         !.drag_mode = "move_tail_root", !.dragging = TRUE,
                         !.tail_root_drag_end =
                             << tail_root2(s1.objs[o])[1] \div 2 + s1.objs[o].tail_dx,
                                tail_root2(s1.objs[o])[2] \div 2 + s1.objs[o].tail_dy >>]
            ELSE IF /\ s1.current_tool = "select"
               /\ s1.selected_panels # << >>
               /\ hits # {}
            THEN [s1 EXCEPT !.drag_mode = "resize", !.dragging = TRUE,
                            !.resize_handle = s1.selection_handles[SetMin(hits)]]
            ELSE step5(
                CASE s1.current_tool = "select" ->
                       IF clicked_panel # NoObj
                       THEN start_move(
                                IF ~In(s1, clicked_panel, s1.selected_panels)
                                THEN select_panel(IF ~ctrl THEN clear_selection(s1)
                                                  ELSE s1, clicked_panel)
                                ELSE s1,
                                clicked_panel)
                       ELSE [(IF ~ctrl THEN clear_selection(s1) ELSE s1) EXCEPT
                                !.drag_mode = "select_area", !.dragging = TRUE]
                  [] s1.current_tool = "panel" ->
                       [s1 EXCEPT !.drag_mode = "create", !.dragging = TRUE,
                                  !.creation_panel_type = "rectangular"]
                  [] s1.current_tool = "speech" ->
                       [s1 EXCEPT !.drag_mode = "create", !.dragging = TRUE,
                                  !.creation_panel_type = "speech_bubble"]
                  [] s1.current_tool = "text" ->
                       IF clicked_panel # NoObj
                       THEN edit_panel_text(s1, clicked_panel, answer) ELSE s1)
        after0(s1) ==
            tools(s1, find_panel_at_point(s1, pg[1], pg[2]),
                  {i \in 1..Len(s1.selection_handles) :
                      handle_contains_point(s1.selection_handles[i], ex, ey)})
        \* 0. the content-pan session: pan, or close it on a press outside
        step0(s0) ==
            IF s0.image_editing_panel = NoObj THEN after0(s0)
            ELSE IF contains_point(s0.objs[s0.image_editing_panel], pg[1], pg[2])
            THEN [s0 EXCEPT
                     !.drag_mode = "pan_image", !.dragging = TRUE,
                     !.image_pan_start =
                         [ mouse |-> pg,
                           off |-> << s0.objs[s0.image_editing_panel].image_offset_x,
                                      s0.objs[s0.image_editing_panel].image_offset_y >> ]]
            ELSE after0(close_image_editing(s0))
    IN  step0([s EXCEPT !.drag_start = << ex, ey >>,
                        !.creation_panel_type = "none",
                        !.tail_move_panel = NoObj])

\* math.atan2 where the result is a multiple of pi/2, as << cos, sin >>;
\* NoAngle for every other direction
NoAngle == << 0, 0 >>
atan2(y, x) ==
    IF y = 0 THEN (IF x >= 0 THEN << 1, 0 >> ELSE << -1, 0 >>)
    ELSE IF x = 0 THEN (IF y > 0 THEN << 0, 1 >> ELSE << 0, -1 >>)
    ELSE NoAngle

\* Panel.mark_visuals_for_update, followed by save_history_state
mark_visuals_for_update_commits(s, o) ==
    save_history_state([s EXCEPT !.objs[o].flag = TRUE])

\* Panel.mark_visuals_for_update
mark_visuals_for_update(s, o) == [s EXCEPT !.objs[o].flag = TRUE]

\* on_mouse_drag
on_mouse_drag(s, ex, ey) ==
    LET pg == screen_to_page(ex, ey)
        iep == s.image_editing_panel
        dx == pg[1] - s.page_drag_start_coords[1]
        dy == pg[2] - s.page_drag_start_coords[2]
        moved(p) ==
            LET init == s.panel_drag_initial_states[p.id]
                nx == Max(0, Min(page_width - init[3], init[1] + dx))
                ny == Max(0, Min(page_height - init[4], init[2] + dy))
            IN  [p EXCEPT !.x = snap_coord(s, nx), !.y = snap_coord(s, ny)]
        tp == s.tail_move_panel
        rp == s.tail_root_move_panel
        \* the tail root of rp, turned towards the pointer
        turned == [s.objs[rp] EXCEPT !.tail_root_angle =
                      atan2((2 * pg[2] - (2 * s.objs[rp].y + s.objs[rp].height)) * s.objs[rp].width,
                            (2 * pg[1] - (2 * s.objs[rp].x + s.objs[rp].width)) * s.objs[rp].height)]
    IN  IF ~s.dragging THEN s
        ELSE IF s.drag_mode = "move_tail" /\ tp # NoObj
        THEN redraw(mark_visuals_for_update(
                 [s EXCEPT
                     !.objs[tp].tail_dx = pg[1] - tail_root2(s.objs[tp])[1] \div 2,
                     !.objs[tp].tail_dy = pg[2] - tail_root2(s.objs[tp])[2] \div 2],
                 tp))
        ELSE IF s.drag_mode = "move_tail_root" /\ rp # NoObj
        THEN redraw(mark_visuals_for_update(
                 [s EXCEPT !.objs[rp] =
                     [turned EXCEPT
                         !.tail_dx = s.tail_root_drag_end[1] - tail_root2(turned)[1] \div 2,
                         !.tail_dy = s.tail_root_drag_end[2] - tail_root2(turned)[2] \div 2]],
                 rp))
        ELSE IF s.drag_mode = "pan_image" /\ iep # NoObj
        THEN redraw(mark_visuals_for_update(
                 [s EXCEPT
                     !.objs[iep].image_offset_x =
                         s.image_pan_start.off[1] + (pg[1] - s.image_pan_start.mouse[1]),
                     !.objs[iep].image_offset_y =
                         s.image_pan_start.off[2] + (pg[2] - s.image_pan_start.mouse[2])],
                 iep))
        ELSE IF s.drag_mode = "move"
        THEN redraw([s EXCEPT !.objs =
                 [o \in DOMAIN s.objs |->
                     IF /\ o \in Range(s.selected_panels)
                        /\ s.objs[o].id \in DOMAIN s.panel_drag_initial_states
                     THEN moved(s.objs[o]) ELSE s.objs[o]]])
        ELSE IF /\ s.drag_mode = "resize"
                /\ s.resize_handle # NoHandle
                /\ s.selected_panels # << >>
        THEN redraw([resize_panel_with_handle(s, s.selected_panels[1],
                         s.resize_handle.handle_type, pg[1], pg[2])
                     EXCEPT !.objs[s.selected_panels[1]].flag = TRUE])
        ELSE redraw(s)

\* on_mouse_up
on_mouse_up(s, ex, ey) ==
    LET cur == screen_to_page(ex, ey)
        start == screen_to_page(s.drag_start[1], s.drag_start[2])
        iep == s.image_editing_panel
        ptype == IF s.creation_panel_type # "none"
                 THEN s.creation_panel_type ELSE "rectangular"
        \* the new panel; a speech bubble gets its default text
        with_text(created) ==
            IF ptype = "speech_bubble"
            THEN [created EXCEPT
                     !.objs[Last(created.panels)].content_text = "Text"]
            ELSE created
        create(x1, y1, x2, y2) ==
            [(IF x2 - x1 >= MIN_CREATE_SIZE /\ y2 - y1 >= MIN_CREATE_SIZE
              THEN with_text(create_panel(s, x1, y1, x2 - x1, y2 - y1, ptype))
              ELSE s)
             EXCEPT !.creation_panel_type = "none"]
        created_at(spx, spy, cpx, cpy) ==
            create(Min(spx, cpx), Min(spy, cpy), Max(spx, cpx), Max(spy, cpy))
        finish(s1) ==
            redraw([s1 EXCEPT
                !.dragging = FALSE,
                !.drag_mode = IF s1.image_editing_panel = NoObj THEN NoneMode ELSE @,
                !.resize_handle = NoHandle,
                !.panel_drag_initial_states = << >>,
                !.tail_move_panel = NoObj,
                !.tail_root_move_panel = NoObj])
    IN  IF ~s.dragging
        THEN IF iep # NoObj /\ ~contains_point(s.objs[iep], cur[1], cur[2])
             THEN redraw([save_history_state(s) EXCEPT
                              !.image_editing_panel = NoObj])
             ELSE s
        ELSE IF s.drag_mode = "move_tail"
        THEN redraw([save_history_state(s) EXCEPT
                        !.tail_move_panel = NoObj,
                        !.dragging = FALSE, !.drag_mode = NoneMode])
        ELSE IF s.drag_mode = "move_tail_root"
        THEN redraw([save_history_state(s) EXCEPT
                        !.tail_root_move_panel = NoObj,
                        !.dragging = FALSE, !.drag_mode = NoneMode])
        ELSE finish(IF s.drag_mode = "create"
                    THEN created_at(snap_coord(s, start[1]), snap_coord(s, start[2]),
                                    snap_coord(s, cur[1]), snap_coord(s, cur[2]))
                    ELSE IF s.drag_mode \in {"move", "resize", "pan_image"}
                    THEN save_history_state(s)
                    ELSE s)

\* on_double_click
on_double_click(s, ex, ey, answer) ==
    LET pg == screen_to_page(ex, ey)
        panel == find_panel_at_point(s, pg[1], pg[2])
        iep == s.image_editing_panel
    IN  IF panel = NoObj THEN s
        ELSE IF s.objs[panel].content_image # NoImage
        THEN IF iep # NoObj /\ (iep = panel \/ s.objs[iep] = s.objs[panel])
             THEN redraw(save_history_state(
                      [s EXCEPT !.image_editing_panel = NoObj]))
             ELSE redraw([select_panel(clear_selection(s), panel)
                              EXCEPT !.image_editing_panel = panel])
        ELSE edit_panel_text(s, panel, answer)

-----------------------------------------------------------------------------
(* Commands *)

\* delete_selected (the Delete key)
delete_selected(s) ==
    LET sel == s.selected_panels
        \* the loop over the selection: (panels left, ids_to_clear)
        F[k \in 0..Len(sel)] ==
            IF k = 0 THEN [ps |-> s.panels, ids |-> {}]
            ELSE IF In(s, sel[k], F[k - 1].ps)
                 THEN [ps |-> Remove(s, sel[k], F[k - 1].ps),
                       ids |-> F[k - 1].ids \cup {s.objs[sel[k]].id}]
                 ELSE F[k - 1]
        done == F[Len(sel)]
        s1 == [s EXCEPT !.panels = done.ps,
                        !.pil_image_cache = @ \ done.ids,
                        !.image_tk_cache = {k \in @ : k.id \notin done.ids},
                        !.image_editing_panel =
                            IF @ # NoObj /\ s.objs[@].id \in done.ids
                            THEN NoObj ELSE @]
    IN  IF sel = << >> THEN s
        ELSE redraw(save_history_state(clear_selection(s1)))

\* select_all (Ctrl+A)
select_all(s) ==
    LET F[k \in 0..Len(s.panels)] ==
            IF k = 0 THEN clear_selection(s)
            ELSE select_panel(F[k - 1], s.panels[k])
    IN  redraw(F[Len(s.panels)])

\* MangaConstructorApp.undo
undo(s) == undo_action(s)

\* MangaConstructorApp.redo
redo(s) == redo_action(s)

\* MangaConstructorApp.move_layer_up
move_layer_up(s) ==
    IF s.selected_panels = << >> THEN s
    ELSE redraw([s EXCEPT !.objs[s.selected_panels[1]].layer = @ + 1])

\* MangaConstructorApp.move_layer_down
move_layer_down(s) ==
    IF s.selected_panels = << >> THEN s
    ELSE IF s.objs[s.selected_panels[1]].layer > 0
         THEN redraw([s EXCEPT !.objs[s.selected_panels[1]].layer = @ - 1])
         ELSE s

\* MangaConstructorApp.toggle_snap_to_grid
toggle_snap_to_grid(s, on) == [s EXCEPT !.snap_to_grid = on]

\* ImageManager.apply_to_selected_panel / apply_image_to_panel
apply_image_to_panel(s, image) ==
    IF s.selected_panels = << >> THEN s
    ELSE LET o == s.selected_panels[1]
             id == s.objs[o].id
             s1 == [s EXCEPT !.objs[o].content_image = image,
                             !.objs[o].image_offset_x = 0,
                             !.objs[o].image_offset_y = 0,
                             !.objs[o].image_scale = 0,
                             !.objs[o].flag = TRUE,
                             !.pil_image_cache = @ \cup {id}]
         IN  redraw(save_history_state(clear_specific_image_tk_cache(s1, id)))

\* edit_panel_properties, apply_changes: the OK button of the properties
\* dialog, every field left as the dialog loaded it but the Locked box
edit_panel_properties(s, o, locked) ==
    redraw(save_history_state([s EXCEPT !.objs[o].locked = locked]))


-----------------------------------------------------------------------------
(* Page, project and clipboard commands *)

\* A clear_page that does not push the snapshot of the empty page
clear_page_without_snapshot(s) ==
    redraw([s EXCEPT !.panels = << >>,
                     !.selected_panels = << >>,
                     !.selection_handles = << >>,
                     !.undo_stack = << >>, !.undo_refs = << >>,
                     !.redo_stack = << >>, !.redo_refs = << >>,
                     !.image_editing_panel = NoObj,
                     !.pil_image_cache = {},
                     !.image_tk_cache = {}])

\* clear_page
clear_page(s) ==
    redraw([save_history_state([s EXCEPT !.panels = << >>,
                                         !.selected_panels = << >>,
                                         !.selection_handles = << >>,
                                         !.undo_stack = << >>, !.undo_refs = << >>,
                                         !.redo_stack = << >>, !.redo_refs = << >>])
                EXCEPT !.image_editing_panel = NoObj,
                       !.pil_image_cache = {},
                       !.image_tk_cache = {}])

\* MangaConstructorApp.new_project, the unsaved changes dealt with
new_project(s) == clear_page(s)

\* A list of panel records as new objects on the heap: what pickle.load and
\* copy.deepcopy return
with_objects(s, records) ==
    LET new == FreshObjs(s, Len(records))
    IN  [objs |-> [o \in DOMAIN s.objs \cup Range(new) |->
                      IF o \in DOMAIN s.objs THEN s.objs[o]
                      ELSE records[CHOOSE i \in 1..Len(new) : new[i] = o]],
         list |-> new]

\* MangaConstructorApp.load_project of a file that holds the panel list
\* project_panels; the window is one the page fits at the zoom in use
load_project(s, project_panels) ==
    LET loaded == with_objects(s, project_panels)
        s1 == [s EXCEPT !.objs = loaded.objs, !.panels = loaded.list,
                        !.undo_stack = << >>, !.undo_refs = << >>,
                        !.redo_stack = << >>, !.redo_refs = << >>]
    IN  redraw(clear_selection(save_history_state(s1)))

\* MangaConstructorApp.copy_panel
copy_panel(s) ==
    IF s.selected_panels = << >> THEN s
    ELSE [s EXCEPT !.clipboard_panels = deepcopy(s, s.selected_panels)]

\* MangaConstructorApp.paste_panel
paste_panel(s) ==
    LET clip == s.clipboard_panels
        pasted(t, panel) ==
            LET o == FreshObjs(t, 1)[1]
                x == panel.x + 20
                y == panel.y + 20
                p == [panel EXCEPT
                         !.id = uuid4(t),
                         !.x = IF x + panel.width > page_width
                               THEN page_width - panel.width ELSE x,
                         !.y = IF y + panel.height > page_height
                               THEN page_height - panel.height ELSE y,
                         !.selected = TRUE]
            IN  [t EXCEPT !.objs = (o :> p) @@ t.objs,
                          !.panels = Append(@, o),
                          !.selected_panels = Append(@, o)]
        F[k \in 0..Len(clip)] ==
            IF k = 0 THEN clear_selection(s) ELSE pasted(F[k - 1], clip[k])
        all == F[Len(clip)]
        top == SetMax({all.objs[o].layer : o \in Range(all.panels)})
    IN  IF clip = << >> THEN s
        ELSE redraw(save_history_state(
                 [all EXCEPT !.objs[Last(all.panels)].layer = top + 1]))

\* The loop of both delete_panel commands of the application over the
\* selection: the panel list that is left
without_selected(s) ==
    LET sel == s.selected_panels
        F[k \in 0..Len(sel)] ==
            IF k = 0 THEN s.panels
            ELSE IF In(s, sel[k], F[k - 1]) THEN Remove(s, sel[k], F[k - 1])
                 ELSE F[k - 1]
    IN  F[Len(sel)]

\* MangaConstructorApp.delete_panel (menu, context menu); answer is the
\* reply to the question asked when several panels are selected
app_delete_panel(s, answer) ==
    IF s.selected_panels = << >> THEN s
    ELSE IF Len(s.selected_panels) > 1 /\ ~answer THEN s
    ELSE redraw(save_history_state(clear_selection(
             [s EXCEPT !.panels = without_selected(s)])))

\* PageConstructor.delete_panel; answer is the reply to its question
delete_panel(s, o, answer) ==
    IF ~In(s, o, s.panels) \/ ~answer THEN s
    ELSE LET s1 == clear_panel_image_cache(
                       [s EXCEPT !.panels = Remove(s, o, s.panels)],
                       s.objs[o].id)
             s2 == IF In(s1, o, s1.selected_panels)
                   THEN [s1 EXCEPT !.selected_panels = Remove(s1, o, @)]
                   ELSE s1
         IN  redraw(save_history_state(s2))

\* A user template of one panel that fills the page
FullPage ==
    << [ x_ratio |-> 0, y_ratio |-> 0, width_ratio |-> 1, height_ratio |-> 1,
         panel_type |-> "rectangular", layer |-> 0, content_hint |-> "" ] >>

\* PanelTemplatesLibrary.apply_template; answer is the reply to "applying
\* the template deletes every panel"
apply_template(s, template, answer) ==
    LET made(t, pt) ==
            LET c == create_panel(t, pt.x_ratio * page_width,
                                  pt.y_ratio * page_height,
                                  pt.width_ratio * page_width,
                                  pt.height_ratio * page_height, pt.panel_type)
            IN  [c EXCEPT !.objs[Last(c.panels)].layer = pt.layer,
                          !.objs[Last(c.panels)].content_text = pt.content_hint]
        F[k \in 0..Len(template)] ==
            IF k = 0 THEN clear_page(s) ELSE made(F[k - 1], template[k])
        all == F[Len(template)]
        ord == paint_order(all)
    IN  IF s.panels # << >> /\ ~answer THEN s
        ELSE redraw([all EXCEPT
                        !.panels = [k \in 1..Len(ord) |-> all.panels[ord[k]]]])

\* ExportManager.export_page_with_multiple_templates with one template
\* chosen; the files written are not part of the editor
export_page_with_multiple_templates(s, template, answer) ==
    LET original_panels == deepcopy(s, s.panels)
        applied == apply_template(s, template, answer)
        back == with_objects(applied, original_panels)
    IN  redraw([applied EXCEPT !.objs = back.objs, !.panels = back.list])

-----------------------------------------------------------------------------
(* The heap between handlers *)

\* The heap objects the snapshots of a stack refer to
held(refs) == UNION {Range(refs[i]) : i \in 1..Len(refs)} \ {OwnCopy}

\* A set of numbers as an ascending sequence
ascending(T) ==
    [k \in 1..Cardinality(T) |->
        CHOOSE t \in T : Cardinality({u \in T : u < t}) = k - 1]

\* Objects no list refers to any more are collected, and the object numbers
\* are renamed in order of first use by panels, selected_panels,
\* image_editing_panel, the snapshots and the export worker's list;
\* identities and aliasing are kept
Compact(s) ==
    LET roots == s.panels \o s.selected_panels \o
                 (IF s.image_editing_panel = NoObj THEN << >>
                  ELSE << s.image_editing_panel >>) \o
                 (IF s.tail_move_panel = NoObj THEN << >>
                  ELSE << s.tail_move_panel >>) \o
                 (IF s.tail_root_move_panel = NoObj THEN << >>
                  ELSE << s.tail_root_move_panel >>) \o
                 ascending(held(s.undo_refs) \cup held(s.redo_refs)) \o
                 s.export_panels
        renamed(refs) ==
            [i \in 1..Len(refs) |->
                [j \in 1..Len(refs[i]) |->
                    IF refs[i][j] = OwnCopy THEN OwnCopy
                    ELSE Cardinality({roots[k] : k \in 1..SetMin(
                             {k \in 1..Len(roots) : roots[k] = refs[i][j]})})]]
        first(o) == SetMin({i \in 1..Len(roots) : roots[i] = o})
        num(o) == Cardinality({roots[j] : j \in 1..first(o)})
        old(n) == CHOOSE o \in Range(roots) : num(o) = n
    IN  [s EXCEPT
            !.objs = [n \in 1..Cardinality(Range(roots)) |-> s.objs[old(n)]],
            !.panels = [i \in 1..Len(s.panels) |-> num(s.panels[i])],
            !.selected_panels =
                [i \in 1..Len(s.selected_panels) |-> num(s.selected_panels[i])],
            !.image_editing_panel = IF @ = NoObj THEN NoObj ELSE num(@),
            !.tail_move_panel = IF @ = NoObj THEN NoObj ELSE num(@),
            !.tail_root_move_panel = IF @ = NoObj THEN NoObj ELSE num(@),
            !.undo_refs = renamed(@),
            !.redo_refs = renamed(@),
            !.export_panels = [i \in 1..Len(s.export_panels) |->
                                  num(s.export_panels[i])]]


-----------------------------------------------------------------------------
(* Export: ExportManager *)

REFERENCE_DPI == 300
\* PAGE_SIZES["B5"], pixels at the reference DPI
B5 == << 2079, 2953 >>
\* None, for the image render_page_to_image returns
NoPage == << >>

\* int(n / d) for d > 0: truncation towards zero
Trunc(n, d) == IF n >= 0 THEN n \div d ELSE -((-n) \div d)

\* ExportSettings, the fields render_page_to_image reads; custom_given is
\* false when the custom size fields did not parse (both are None then)
ExportSettings(size_name, orientation, custom_w, custom_h, custom_given, dpi, include_bleed, bleed_size) ==
    [ export_page_size_name |-> size_name,
      export_orientation_name |-> orientation,
      custom_export_width_px |-> custom_w,
      custom_export_height_px |-> custom_h,
      custom_given |-> custom_given,
      dpi |-> dpi, include_bleed |-> include_bleed, bleed_size |-> bleed_size ]

\* self.app.page_constructor as the exporter can read it: the editor state
\* with the page size and the interactive zoom
View(s) ==
    [page_width |-> page_width, page_height |-> page_height, zoom |-> zoom] @@ s

\* render_page_to_image, 1: the pixel size of the page without bleed.  The
\* DPI ratio is applied in integers; the float product differs only where
\* it is within rounding of a whole number, which no input here produces
export_page_size(pcs, st) ==
    LET scaled(v) == Trunc(v * st.dpi, REFERENCE_DPI)
        landscape ==
            IF st.export_orientation_name = "canvas"
            THEN pcs.page_width > pcs.page_height
            ELSE st.export_orientation_name = "landscape"
    IN  CASE st.export_page_size_name = "canvas" ->
                << scaled(pcs.page_width), scaled(pcs.page_height) >>
          [] st.export_page_size_name = "custom" ->
                IF st.custom_given
                THEN << st.custom_export_width_px, st.custom_export_height_px >>
                ELSE << scaled(B5[1]), scaled(B5[2]) >>
          [] OTHER ->
                IF landscape THEN << scaled(B5[2]), scaled(B5[1]) >>
                ELSE << scaled(B5[1]), scaled(B5[2]) >>

\* int(mm_to_pixels(bleed_size, dpi)), or 0 without bleed
bleed_pixels(st) ==
    IF st.include_bleed THEN Trunc(st.bleed_size * st.dpi * 10, 254) ELSE 0

\* render_page_to_image, 1 and 2: NoPage when the page size is not positive,
\* else the size of the image created, bleed included
export_image_size(pcs, st) ==
    LET page == export_page_size(pcs, st)
    IN  IF page[1] <= 0 \/ page[2] <= 0 THEN NoPage
        ELSE << page[1] + 2 * bleed_pixels(st), page[2] + 2 * bleed_pixels(st) >>


\* A panel_export that multiplies the placement by the interactive zoom
panel_export_at_zoom(pcs, p, st) ==
    LET page == export_page_size(pcs, st)
        w == Trunc(2 * p.width * pcs.zoom * page[1], 2 * pcs.page_width)
        h == Trunc(2 * p.height * pcs.zoom * page[2], 2 * pcs.page_height)
    IN  [ id |-> p.id,
          x |-> Trunc(2 * p.x * pcs.zoom * page[1], 2 * pcs.page_width)
                    + bleed_pixels(st),
          y |-> Trunc(2 * p.y * pcs.zoom * page[2], 2 * pcs.page_height)
                    + bleed_pixels(st),
          w |-> w, h |-> h,
          content_text |-> p.content_text, content_image |-> p.content_image,
          drawn |-> w > 0 /\ h > 0 ]

\* render_page_to_image, 3, for one visible panel p: where it goes on the
\* image, and whether it is drawn (a panel without pixels is passed over).
\* Page coordinates are doubled: the tail root of a speech bubble lies at
\* half a width
panel_export(pcs, p, st) ==
    LET page == export_page_size(pcs, st)
        bubble == p.panel_type = "speech_bubble"
        rx == tail_root2(p)[1] + 2 * p.tail_dx
        ry == tail_root2(p)[2] + 2 * p.tail_dy
        px1 == IF bubble THEN Min(2 * p.x, rx) ELSE 2 * p.x
        py1 == IF bubble THEN Min(2 * p.y, ry) ELSE 2 * p.y
        px2 == IF bubble THEN Max(2 * (p.x + p.width), rx) ELSE 2 * (p.x + p.width)
        py2 == IF bubble THEN Max(2 * (p.y + p.height), ry) ELSE 2 * (p.y + p.height)
        w == Trunc((px2 - px1) * page[1], 2 * pcs.page_width)
        h == Trunc((py2 - py1) * page[2], 2 * pcs.page_height)
    IN  [ id |-> p.id,
          x |-> Trunc(px1 * page[1], 2 * pcs.page_width) + bleed_pixels(st),
          y |-> Trunc(py1 * page[2], 2 * pcs.page_height) + bleed_pixels(st),
          w |-> w, h |-> h,
          content_text |-> p.content_text, content_image |-> p.content_image,
          drawn |-> w > 0 /\ h > 0 ]

\* panels = sorted(self.app.page_constructor.panels, key=layer): the same
\* panel objects in a new list
export_sorted(pcs) ==
    IF pcs.page_width = 0 \/ pcs.page_height = 0 THEN << >>
    ELSE [k \in 1..Len(pcs.panels) |-> pcs.panels[paint_order(pcs)[k]]]

\* render_page_to_image run from start to end with nothing in between: the
\* image size and what the loop computes for the visible panels
render_page_to_image(pcs, st) ==
    LET list == export_sorted(pcs)
        F[k \in 0..Len(list)] ==
            IF k = 0 THEN << >>
            ELSE IF pcs.objs[list[k]].visible
                 THEN Append(F[k - 1], panel_export(pcs, pcs.objs[list[k]], st))
                 ELSE F[k - 1]
    IN  IF export_image_size(pcs, st) = NoPage
        THEN [image |-> NoPage, out |-> << >>]
        ELSE [image |-> export_image_size(pcs, st), out |-> F[Len(list)]]

-----------------------------------------------------------------------------
(* Inputs *)

\* Pointer positions, as page points: off the page to the upper left, two
\* points 15 apart, a point 15 short of the right edge, a point past the
\* lower right corner
PagePoints == { << -30, -30 >>, << 50, 50 >>, << 65, 65 >>,
                << 580, 830 >>, << 600, 850 >> }
Points == {page_to_screen(q[1], q[2]) : q \in PagePoints}

\* Fewer positions, for sessions that exercise the history
FewPagePoints == { << 50, 50 >>, << 150, 150 >> }
FewPoints == {page_to_screen(q[1], q[2]) : q \in FewPagePoints}

\* The centres of the selection handles now on the canvas
HandlePoints ==
    {<< selection_handles[i].x2 \div 2, selection_handles[i].y2 \div 2 >> :
        i \in 1..Len(selection_handles)}

\* What the text dialog may return
Answers == {"cancel", "a"}
LongAnswers == {"a", "b"}

\* The images of the library
Images == {1}

\* The centres of the tail handles draw_speech_bubble puts on the canvas,
\* doubled: the root at the bottom of the oval, the tip tail_dx, tail_dy away
tail_handles(s) ==
    UNION {{tail_root_handle2(s.objs[o]), tail_end_handle2(s.objs[o])} :
           o \in {o \in Range(s.panels) : /\ s.objs[o].visible
                                          /\ s.objs[o].panel_type = "speech_bubble"}}

\* The pointer is on or next to a tail handle (of radius tail_handle_r)
near_tail_handle(s, ex, ey) ==
    \E c \in tail_handles(s) :
        /\ c[1] - 4 * tail_handle_r <= 2 * ex /\ 2 * ex <= c[1] + 4 * tail_handle_r
        /\ c[2] - 4 * tail_handle_r <= 2 * ey /\ 2 * ey <= c[2] + 4 * tail_handle_r

-----------------------------------------------------------------------------
(* Observers *)

Idle == [phase |-> "idle", depth |-> 0, base |-> << >>]

\* The last n elements of a sequence (all of it when it is shorter)
LastN(seq, n) == SubSeq(seq, Max(1, Len(seq) - n + 1), Len(seq))

\* The last element, or e for the empty sequence
TopOr(seq, e) == IF seq = << >> THEN e ELSE Last(seq)

\* n copies of e
Copies(e, n) == [i \in 1..n |-> e]

-----------------------------------------------------------------------------
(* Actions *)

\* The state a handler returns becomes the next state; op names the command.
\* Between gestures the press point, the Move origin and the pan origin hold
\* values that every later press overwrites before any handler reads them:
\* they are dropped, as is the pointer position once it can start nothing
Forget(c, down) ==
    IF c.dragging \/ down THEN c
    ELSE [c EXCEPT !.drag_start = << 0, 0 >>,
                   !.page_drag_start_coords = << 0, 0 >>,
                   !.image_pan_start = [mouse |-> << 0, 0 >>, off |-> << 0, 0 >>],
                   !.tail_root_drag_end = << 0, 0 >>]

Becomes(t, doc, ok, op, down, pt, click, room) ==
        /\ Len(t.panels) <= MaxPanels
        /\ Len(t.undo_stack) <= room
        /\ objs' = t.objs
        /\ panels' = t.panels
        /\ selected_panels' = t.selected_panels
        /\ selection_handles' = t.selection_handles
        /\ current_tool' = t.current_tool
        /\ snap_to_grid' = t.snap_to_grid
        /\ dragging' = t.dragging
        /\ drag_mode' = t.drag_mode
        /\ resize_handle' = t.resize_handle
        /\ drag_start' = t.drag_start
        /\ panel_drag_initial_states' = t.panel_drag_initial_states
        /\ page_drag_start_coords' = t.page_drag_start_coords
        /\ creation_panel_type' = t.creation_panel_type
        /\ image_editing_panel' = t.image_editing_panel
        /\ image_pan_start' = t.image_pan_start
        /\ tail_move_panel' = t.tail_move_panel
        /\ tail_root_move_panel' = t.tail_root_move_panel
        /\ tail_root_drag_end' = t.tail_root_drag_end
        /\ undo_stack' = t.undo_stack
        /\ redo_stack' = t.redo_stack
        /\ undo_refs' = t.undo_refs
        /\ redo_refs' = t.redo_refs
        /\ image_tk_cache' = t.image_tk_cache
        /\ pil_image_cache' = t.pil_image_cache
        /\ clipboard_panels' = t.clipboard_panels
        /\ export_panels' = t.export_panels
        /\ UNCHANGED << export_pc, cancel_export, settings, export_k, export_out,
                        export_image, export_file, progress, export_start,
                        canvas_view, probe >>
        /\ pressed' = down
        /\ drag_steps' = IF op = "drag" THEN drag_steps + 1 ELSE 0
        /\ pointer' = IF down \/ click THEN pt ELSE << 0, 0 >>
        /\ clicked_once' = click
        /\ status' = CASE op = "undo" -> IF ok THEN "undone" ELSE "nothing_to_undo"
                       [] op = "redo" -> IF ok THEN "redone" ELSE "nothing_to_redo"
                       [] t.commits > 0 -> "committed"
                       [] OTHER -> "other"
        /\ hist_ends' =
               CASE op = "undo" /\ ok -> Front(hist_ends)
                 [] op = "redo" /\ ok ->
                        LastN(Append(hist_ends, TopOr(hist_ends_redo, << >>)),
                              Len(t.undo_stack))
                 [] op \notin {"undo", "redo"} /\ t.commits > 0 ->
                        LastN(hist_ends \o Copies(doc, t.commits),
                              Len(t.undo_stack))
                 [] OTHER -> hist_ends
        /\ hist_ends_redo' =
               CASE op = "undo" /\ ok ->
                        Append(hist_ends_redo, TopOr(hist_ends, << >>))
                 [] op = "redo" /\ ok -> Front(hist_ends_redo)
                 [] op \notin {"undo", "redo"} /\ t.commits > 0 -> << >>
                 [] OTHER -> hist_ends_redo
        /\ ur_run' =
               CASE op = "undo" /\ ok ->
                        IF ur_run.phase = "undoing"
                        THEN [ur_run EXCEPT !.depth = @ + 1]
                        ELSE [phase |-> "undoing", depth |-> 1,
                              base |-> DocList(LivePanels)]
                 [] op = "redo" /\ ok ->
                        IF ur_run.phase \in {"undoing", "redoing"} /\ ur_run.depth > 0
                        THEN [ur_run EXCEPT !.phase = "redoing", !.depth = @ - 1]
                        ELSE Idle
                 [] op \in {"undo", "redo"} /\ ~ok -> ur_run
                 [] t.commits > 0 /\ redo_stack # << >> ->
                        [phase |-> "cut", depth |-> 0, base |-> << >>]
                 [] OTHER -> Idle

Settle(t, op, down, pt, click, room) ==
    Becomes(t, DocList(Live(t)), t.returned = "true", op, down, pt, click, room)

\* In an editing session the history is followed up to MaxHist snapshots
Apply(t0, op, down, pt, click) ==
    Settle(Forget(Compact(t0), down), op, down, pt, click, MaxHist)

\* In a long session it is followed up to the cap, and past it
ApplyLong(t0, op, down, pt, click) ==
    Settle(Forget(Compact(t0), down), op, down, pt, click, MAX_HISTORY_SIZE + 1)

\* <Button-1>
MouseDown(pt, ctrl, answer) ==
    /\ ~pressed
    /\ ~near_tail_handle(S, pt[1], pt[2])
    /\ LET t == on_mouse_down(S, pt[1], pt[2], ctrl, answer)
       IN  /\ t.dragging /\ t.drag_mode # "select_area" =>
                  Len(t.undo_stack) < MaxHist
           /\ t.dragging /\ t.drag_mode = "create" => Len(t.panels) < MaxPanels
           /\ Apply(t, "down", TRUE, pt, FALSE)

\* <B1-Motion>
MouseDrag(pt) ==
    /\ pressed
    /\ drag_steps < MaxDrags
    /\ Apply(on_mouse_drag(S, pt[1], pt[2]), "drag", TRUE, pt, FALSE)

\* <ButtonRelease-1>, where the pointer is
MouseUp ==
    /\ pressed
    /\ Apply(on_mouse_up(S, pointer[1], pointer[2]), "up", FALSE, pointer,
             pointer = drag_start)

\* <Double-Button-1>: the second press of a double click
DoubleClick(answer) ==
    /\ ~pressed /\ clicked_once
    /\ Apply(on_double_click(S, pointer[1], pointer[2], answer), "double",
             TRUE, pointer, FALSE)

\* A tool button or tool key
SetTool(tool_name) ==
    /\ ~pressed
    /\ Apply(set_tool(S, tool_name), "tool", FALSE, pointer, FALSE)

\* The snap-to-grid check box
ToggleSnap ==
    /\ ~pressed
    /\ Apply(toggle_snap_to_grid(S, ~snap_to_grid), "snap", FALSE, pointer, FALSE)

\* Ctrl+Z
Undo ==
    /\ ~pressed
    /\ Apply(undo(S), "undo", FALSE, pointer, FALSE)

\* Ctrl+Y
Redo ==
    /\ ~pressed
    /\ Apply(redo(S), "redo", FALSE, pointer, FALSE)

\* Layer up
MoveLayerUp ==
    /\ ~pressed
    /\ \A o \in DOMAIN objs : objs[o].layer < MaxLayer
    /\ Apply(move_layer_up(S), "layer", FALSE, pointer, FALSE)

\* Layer down
MoveLayerDown ==
    /\ ~pressed
    /\ Apply(move_layer_down(S), "layer", FALSE, pointer, FALSE)

\* The Delete key
DeleteSelected ==
    /\ ~pressed
    /\ Apply(delete_selected(S), "delete", FALSE, pointer, FALSE)

\* Ctrl+A
SelectAll ==
    /\ ~pressed
    /\ Apply(select_all(S), "select_all", FALSE, pointer, FALSE)

\* The image library's Apply button
ApplyImage(image) ==
    /\ ~pressed
    /\ Cardinality(pil_image_cache) < MaxCached
    /\ Apply(apply_image_to_panel(S, image), "image", FALSE, pointer, FALSE)


\* The variables of the editor no export step writes
EditorRest ==
    << selection_handles, current_tool, snap_to_grid, dragging, drag_mode,
       resize_handle, drag_start, panel_drag_initial_states,
       page_drag_start_coords, creation_panel_type, image_pan_start,
       tail_root_drag_end, undo_stack, redo_stack, image_tk_cache, pil_image_cache,
       clipboard_panels, status, pressed, pointer, drag_steps, clicked_once,
       hist_ends, hist_ends_redo, ur_run >>

\* The heap and the lists of object numbers, as an export step leaves them
Heap(t) ==
    /\ objs' = t.objs
    /\ panels' = t.panels
    /\ selected_panels' = t.selected_panels
    /\ image_editing_panel' = t.image_editing_panel
    /\ tail_move_panel' = t.tail_move_panel
    /\ tail_root_move_panel' = t.tail_root_move_panel
    /\ undo_refs' = t.undo_refs
    /\ redo_refs' = t.redo_refs
    /\ export_panels' = t.export_panels

\* start_export, with the output folder chosen; st is what
\* collect_export_settings returns.  One export is followed, started with
\* the select tool on a page whose history holds one edit; export_file is
\* the file of that export
StartExport(st) ==
    /\ ~pressed
    /\ export_pc = "idle"
    /\ Len(undo_stack) = 2 /\ redo_stack = << >>
    /\ current_tool = "select" /\ pointer = << 0, 0 >>
    /\ panels # << >>
    /\ settings' = st
    /\ cancel_export' = FALSE
    /\ export_pc' = "started"
    /\ export_k' = 0
    /\ export_out' = << >>
    /\ export_image' = NoPage
    /\ export_file' = "none"
    /\ export_start' = [objs |-> objs, panels |-> panels]
    /\ Heap(S)
    /\ UNCHANGED << EditorRest, canvas_view, probe, progress >>

\* cancel_export_process: the Cancel button of the progress window
CancelExport ==
    /\ export_pc \in {"started", "render", "saved"}
    /\ ~cancel_export
    /\ cancel_export' = TRUE
    /\ Heap(S)
    /\ UNCHANGED << EditorRest, canvas_view, probe, export_pc, settings, export_k, export_out,
                    export_image, export_file, progress, export_start >>

\* export_worker up to the render loop: the page and image size, the image,
\* the sorted panel list; without a positive page size the export fails
WorkerPrepare ==
    /\ export_pc = "started"
    /\ LET size == export_image_size(View(S), settings)
       IN  IF size = NoPage
           THEN /\ export_pc' = "done"
                /\ progress' = IF cancel_export THEN "cancelled" ELSE "error"
                /\ Heap(S)
                /\ UNCHANGED export_image
           ELSE /\ export_pc' = "render"
                /\ progress' = "running"
                /\ export_image' = size
                /\ Heap([S EXCEPT !.export_panels = export_sorted(View(S))])
    /\ UNCHANGED << EditorRest, canvas_view, probe, cancel_export, settings, export_k, export_out,
                    export_file, export_start >>

\* One turn of the render loop, on the panel object as it is now
WorkerPanel ==
    /\ export_pc = "render"
    /\ export_k < Len(export_panels)
    /\ LET p == objs[export_panels[export_k + 1]]
       IN  export_out' = IF p.visible
                         THEN Append(export_out, panel_export(View(S), p, settings))
                         ELSE export_out
    /\ export_k' = export_k + 1
    /\ Heap(S)
    /\ UNCHANGED << EditorRest, canvas_view, probe, export_pc, cancel_export, settings,
                    export_image, export_file, progress, export_start >>

\* After the loop: apply_export_settings, get_output_filename, save_image
WorkerSave ==
    /\ export_pc = "render"
    /\ export_k = Len(export_panels)
    /\ export_file' = "saved"
    /\ export_pc' = "saved"
    /\ Heap(S)
    /\ UNCHANGED << EditorRest, canvas_view, probe, cancel_export, settings, export_k, export_out,
                    export_image, progress, export_start >>

\* export_worker after export_current_page returned true: the cancellation
\* flag is read, the thread ends and its panel list is dropped
WorkerEnd ==
    /\ export_pc = "saved"
    /\ progress' = IF ~cancel_export THEN "completed" ELSE "cancelled"
    /\ export_pc' = "done"
    /\ Heap(Compact([S EXCEPT !.export_panels = << >>]))
    /\ UNCHANGED << EditorRest, canvas_view, probe, cancel_export, settings, export_k, export_out,
                    export_image, export_file, export_start >>

Init ==
    /\ objs = << >>
    /\ panels = << >>
    /\ selected_panels = << >>
    /\ selection_handles = << >>
    /\ current_tool = "select"
    /\ snap_to_grid = FALSE
    /\ dragging = FALSE
    /\ drag_mode = NoneMode
    /\ resize_handle = NoHandle
    /\ drag_start = << 0, 0 >>
    /\ panel_drag_initial_states = << >>
    /\ page_drag_start_coords = << 0, 0 >>
    /\ creation_panel_type = "none"
    /\ image_editing_panel = NoObj
    /\ image_pan_start = [mouse |-> << 0, 0 >>, off |-> << 0, 0 >>]
    /\ tail_move_panel = NoObj
    /\ tail_root_move_panel = NoObj
    /\ tail_root_drag_end = << 0, 0 >>
    /\ undo_stack = << << >> >>
    /\ redo_stack = << >>
    /\ undo_refs = << << >> >>
    /\ redo_refs = << >>
    /\ image_tk_cache = {}
    /\ pil_image_cache = {}
    /\ clipboard_panels = << >>
    /\ export_pc = "idle"
    /\ cancel_export = FALSE
    /\ settings = ExportSettings("canvas", "canvas", 0, 0, FALSE,
                                 REFERENCE_DPI, FALSE, 3)
    /\ export_panels = << >>
    /\ export_k = 0
    /\ export_out = << >>
    /\ export_image = NoPage
    /\ export_file = "none"
    /\ progress = "idle"
    /\ export_start = [objs |-> << >>, panels |-> << >>]
    /\ status = "other"
    /\ pressed = FALSE
    /\ drag_steps = 0
    /\ pointer = << 0, 0 >>
    /\ clicked_once = FALSE
    /\ hist_ends = << << >> >>
    /\ hist_ends_redo = << >>
    /\ ur_run = Idle
    /\ canvas_view = StartView
    /\ probe = NoProbe

\* <Button-1> in an editing session, which keeps one panel on the page
EditPress(pt, answer) ==
    /\ current_tool \in {"panel", "speech"} => panels = << >>
    /\ MouseDown(pt, FALSE, answer)

\* Editing sessions: every tool and command, the pointer on two points
Next ==
    \/ \E pt \in FewPoints \cup HandlePoints, answer \in Answers :
           EditPress(pt, answer)
    \/ \E pt \in FewPoints : MouseDrag(pt)
    \/ MouseUp
    \/ \E tool_name \in Tools : SetTool(tool_name)
    \/ Undo
    \/ Redo
    \/ MoveLayerUp
    \/ MoveLayerDown
    \/ DeleteSelected
    \/ SelectAll

Spec == Init /\ [][Next]_vars

\* Geometry sessions: panels drawn, moved and resized over the whole page and
\* past its edges, with the grid snap switched on and off
NextGeom ==
    \/ \E pt \in Points \cup HandlePoints : MouseDown(pt, FALSE, "cancel")
    \/ \E pt \in Points : MouseDrag(pt)
    \/ MouseUp
    \/ \E tool_name \in {"select", "panel"} : SetTool(tool_name)
    \/ ToggleSnap
    \/ SelectAll

SpecGeom == Init /\ [][NextGeom]_vars

\* Image sessions: a panel is drawn, an image is applied to it and its
\* content-pan session is entered by a double click
NextPan ==
    \/ \E pt \in FewPoints : EditPress(pt, "cancel")
    \/ \E pt \in FewPoints : MouseDrag(pt)
    \/ MouseUp
    \/ DoubleClick("cancel")
    \/ \E tool_name \in {"select", "panel", "text"} : SetTool(tool_name)
    \/ \E image \in Images : ApplyImage(image)
    \/ Undo
    \/ Redo

SpecPan == Init /\ [][NextPan]_vars

\* What collect_export_settings may return: the canvas at the reference DPI,
\* a custom size of 5 x 5 pixels, a custom width of 0, custom fields that
\* did not parse, B5 at half the reference DPI with 3 mm of bleed
SettingsChoices ==
    { ExportSettings("canvas", "canvas", 0, 0, FALSE, REFERENCE_DPI, FALSE, 3),
      ExportSettings("custom", "canvas", 5, 5, TRUE, REFERENCE_DPI, FALSE, 3),
      ExportSettings("custom", "canvas", 0, 100, TRUE, REFERENCE_DPI, FALSE, 3),
      ExportSettings("custom", "canvas", 0, 0, FALSE, REFERENCE_DPI, FALSE, 3),
      ExportSettings("B5", "landscape", 0, 0, FALSE, 150, TRUE, 3) }

\* Export sessions: a panel is drawn, then moved, deleted and brought back
\* while the export worker runs; the session is followed until the export
\* ends, the tool is chosen before it starts
NextExport ==
    \/ export_pc # "done" /\ \E pt \in FewPoints : EditPress(pt, "cancel")
    \/ export_pc # "done" /\ \E pt \in FewPoints : MouseDrag(pt)
    \/ export_pc # "done" /\ MouseUp
    \/ export_pc = "idle" /\ \E tool_name \in {"select", "panel"} : SetTool(tool_name)
    \/ export_pc # "done" /\ Undo
    \/ export_pc # "done" /\ DeleteSelected
    \/ \E st \in SettingsChoices : StartExport(st)
    \/ CancelExport
    \/ WorkerPrepare
    \/ WorkerPanel
    \/ WorkerSave
    \/ WorkerEnd

SpecExport == Init /\ [][NextExport]_vars

-----------------------------------------------------------------------------
(* Long sessions: one panel is drawn and its text edited over and over, so   *)
(* that the history reaches MAX_HISTORY_SIZE and the oldest snapshots go     *)

\* <Button-1>; the panel tool draws the one panel of the session
LongPress(pt, answer) ==
    /\ ~pressed
    /\ current_tool \in {"panel", "text"}
    /\ current_tool = "panel" => panels = << >>
    /\ ApplyLong(on_mouse_down(S, pt[1], pt[2], FALSE, answer), "down",
                 TRUE, pt, FALSE)

\* <B1-Motion>
LongDrag(pt) ==
    /\ pressed
    /\ drag_steps < MaxDrags
    /\ ApplyLong(on_mouse_drag(S, pt[1], pt[2]), "drag", TRUE, pt, FALSE)

\* <ButtonRelease-1>
LongRelease ==
    /\ pressed
    /\ ApplyLong(on_mouse_up(S, pointer[1], pointer[2]), "up", FALSE, pointer,
                 FALSE)

\* A tool button
LongSetTool(tool_name) ==
    /\ ~pressed
    /\ current_tool # tool_name
    /\ ApplyLong(set_tool(S, tool_name), "tool", FALSE, pointer, FALSE)

\* Ctrl+Z, at most MaxLongUndo deep
LongUndo ==
    /\ ~pressed
    /\ Len(redo_stack) < MaxLongUndo
    /\ ApplyLong(undo(S), "undo", FALSE, pointer, FALSE)

\* Ctrl+Y
LongRedo ==
    /\ ~pressed
    /\ ApplyLong(redo(S), "redo", FALSE, pointer, FALSE)

NextCap ==
    \/ \E pt \in FewPoints, answer \in LongAnswers : LongPress(pt, answer)
    \/ \E pt \in FewPoints : LongDrag(pt)
    \/ LongRelease
    \/ \E tool_name \in {"panel", "text"} : LongSetTool(tool_name)
    \/ LongUndo
    \/ LongRedo

SpecCap == Init /\ [][NextCap]_vars

-----------------------------------------------------------------------------
(* Layer sessions: two panels are drawn over each other and moved up and     *)
(* down the layers                                                           *)

NextLayers ==
    \/ \E pt \in FewPoints : MouseDown(pt, FALSE, "cancel")
    \/ \E pt \in FewPoints : MouseDrag(pt)
    \/ MouseUp
    \/ \E tool_name \in {"select", "panel"} : SetTool(tool_name)
    \/ MoveLayerUp
    \/ MoveLayerDown

SpecLayers == Init /\ [][NextLayers]_vars

-----------------------------------------------------------------------------
(* View sessions: the page is zoomed and scrolled, and page points are       *)
(* converted to the screen and back                                          *)

\* zoom levels asked of set_zoom, in hundredths
ZoomLevels == {0, 1, 50, 100, 200, 1000, 2000}
\* canvas coordinates the window's corner is scrolled to
ScrollOrigins == {-20, 0, 30}
\* margins around the page
Margins == {0, 20, 40}

\* The variables a view step leaves alone
Editor ==
    << EditorRest, objs, panels, selected_panels, image_editing_panel,
       tail_move_panel, tail_root_move_panel, undo_refs, redo_refs >>
Exporter ==
    << export_pc, cancel_export, settings, export_panels, export_k, export_out,
       export_image, export_file, progress, export_start >>

\* The zoom buttons, keys and Ctrl+wheel; update_scroll_region then places
\* the view anew
SetZoom(zoom_level, x, y) ==
    /\ ~pressed
    /\ set_zoom(canvas_view, zoom_level) # canvas_view
    /\ canvas_view' = [set_zoom(canvas_view, zoom_level)
                           EXCEPT !.xview = x, !.yview = y]
    /\ UNCHANGED << Editor, Exporter, probe >>

\* The scrollbars and center_canvas_view
ScrollCanvas(x, y) ==
    /\ ~pressed
    /\ << x, y >> # << canvas_view.xview, canvas_view.yview >>
    /\ canvas_view' = [canvas_view EXCEPT !.xview = x, !.yview = y]
    /\ UNCHANGED << Editor, Exporter, probe >>

\* A page point is converted to the screen and the result back to the page
ConvertPoint(q) ==
    LET sc == page_to_screen_at(canvas_view, Whole(q[1]), Whole(q[2]))
    IN  /\ probe' = [page |-> q, view |-> canvas_view, screen |-> sc,
                     back |-> screen_to_page_at(canvas_view, sc[1], sc[2])]
        /\ UNCHANGED << Editor, Exporter, canvas_view >>

NextView ==
    \/ \E zoom_level \in ZoomLevels, x, y \in ScrollOrigins :
           SetZoom(zoom_level, x, y)
    \/ \E x, y \in ScrollOrigins : ScrollCanvas(x, y)
    \/ \E q \in PagePoints : ConvertPoint(q)

SpecView == Init /\ [][NextView]_vars

-----------------------------------------------------------------------------
(* Bubble sessions: one speech bubble is drawn, moved and resized, its tail  *)
(* and the root of its tail are dragged, and its image is panned             *)

\* In a bubble session the history is followed up to MaxTailHist snapshots
ApplyTail(t0, op, down, pt, click) ==
    Settle(Forget(Compact(t0), down), op, down, pt, click, MaxTailHist)

\* Where the pointer goes: the corners of the first bubble, and the points
\* right of and above its centre
TailTargets == FewPoints \cup {page_to_screen(150, 100), page_to_screen(100, 50)}

\* The centres of the tail handles, where they lie on whole canvas units
TailPoints ==
    {<< c[1] \div 2, c[2] \div 2 >> :
        c \in {c \in tail_handles(S) : c[1] % 2 = 0 /\ c[2] % 2 = 0}}

\* <Button-1>; the speech tool draws the one bubble of the session
TailPress(pt) ==
    /\ ~pressed
    /\ current_tool = "speech" => panels = << >>
    /\ LET t == on_mouse_down(S, pt[1], pt[2], FALSE, "cancel")
       IN  /\ t.dragging /\ t.drag_mode # "select_area" =>
                  Len(t.undo_stack) < MaxTailHist
           /\ ApplyTail(t, "down", TRUE, pt, FALSE)

\* <B1-Motion>; the root of a tail is turned by quarter turns
TailDrag(pt) ==
    /\ pressed
    /\ drag_steps < MaxDrags
    /\ LET t == on_mouse_drag(S, pt[1], pt[2])
       IN  /\ \A o \in Range(t.panels) : t.objs[o].tail_root_angle # NoAngle
           /\ ApplyTail(t, "drag", TRUE, pt, FALSE)

\* <ButtonRelease-1>
TailRelease ==
    /\ pressed
    /\ ApplyTail(on_mouse_up(S, pointer[1], pointer[2]), "up", FALSE, pointer,
                 pointer = drag_start)

\* <Double-Button-1>
TailDoubleClick ==
    /\ ~pressed /\ clicked_once
    /\ ApplyTail(on_double_click(S, pointer[1], pointer[2], "cancel"), "double",
                 TRUE, pointer, FALSE)

\* A tool button
TailSetTool(tool_name) ==
    /\ ~pressed
    /\ current_tool # tool_name
    /\ ApplyTail(set_tool(S, tool_name), "tool", FALSE, pointer, FALSE)

\* The image library's Apply button
TailApplyImage(image) ==
    /\ ~pressed
    /\ selected_panels # << >>
    /\ objs[selected_panels[1]].content_image # image
    /\ ApplyTail(apply_image_to_panel(S, image), "image", FALSE, pointer, FALSE)

\* Ctrl+Z, once, after the first edit of the bubble
TailUndo ==
    /\ ~pressed
    /\ redo_stack = << >> /\ Len(undo_stack) = 3
    /\ ApplyTail(undo(S), "undo", FALSE, pointer, FALSE)

NextTail ==
    \/ \E pt \in FewPoints \cup HandlePoints \cup TailPoints : TailPress(pt)
    \/ \E pt \in TailTargets : TailDrag(pt)
    \/ TailRelease
    \/ TailDoubleClick
    \/ \E tool_name \in {"select", "speech", "text"} : TailSetTool(tool_name)
    \/ \E image \in Images : TailApplyImage(image)
    \/ TailUndo

SpecTail == Init /\ [][NextTail]_vars

-----------------------------------------------------------------------------
(* Lock sessions: one panel is drawn, locked in its properties dialog, and   *)
(* its text and image are then edited                                        *)

\* In a lock session the history is followed up to MaxLockHist snapshots
ApplyLock(t0, op, down, pt, click) ==
    Settle(Forget(Compact(t0), down), op, down, pt, click, MaxLockHist)

\* <Button-1>; the panel tool draws the one panel of the session
LockPress(pt, answer) ==
    /\ ~pressed
    /\ ~near_tail_handle(S, pt[1], pt[2])
    /\ current_tool = "panel" => panels = << >>
    /\ LET t == on_mouse_down(S, pt[1], pt[2], FALSE, answer)
       IN  /\ t.dragging /\ t.drag_mode # "select_area" =>
                  Len(t.undo_stack) < MaxLockHist
           /\ ApplyLock(t, "down", TRUE, pt, FALSE)

\* <B1-Motion>
LockDrag(pt) ==
    /\ pressed
    /\ drag_steps < MaxDrags
    /\ ApplyLock(on_mouse_drag(S, pt[1], pt[2]), "drag", TRUE, pt, FALSE)

\* <ButtonRelease-1>
LockRelease ==
    /\ pressed
    /\ ApplyLock(on_mouse_up(S, pointer[1], pointer[2]), "up", FALSE, pointer,
                 pointer = drag_start)

\* <Double-Button-1>
LockDoubleClick(answer) ==
    /\ ~pressed /\ clicked_once
    /\ ApplyLock(on_double_click(S, pointer[1], pointer[2], answer), "double",
                 TRUE, pointer, FALSE)

\* A tool button
LockSetTool(tool_name) ==
    /\ ~pressed
    /\ current_tool # tool_name
    /\ ApplyLock(set_tool(S, tool_name), "tool", FALSE, pointer, FALSE)

\* The properties dialog of the selected panel, closed with OK
LockProperties(locked) ==
    /\ ~pressed
    /\ selected_panels # << >>
    /\ objs[selected_panels[1]].locked # locked
    /\ ApplyLock(edit_panel_properties(S, selected_panels[1], locked),
                 "properties", FALSE, pointer, FALSE)

\* The image library's Apply button
LockApplyImage(image) ==
    /\ ~pressed
    /\ selected_panels # << >>
    /\ objs[selected_panels[1]].content_image # image
    /\ ApplyLock(apply_image_to_panel(S, image), "image", FALSE, pointer, FALSE)

NextLock ==
    \/ \E pt \in FewPoints, answer \in Answers : LockPress(pt, answer)
    \/ \E pt \in FewPoints : LockDrag(pt)
    \/ LockRelease
    \/ \E answer \in Answers : LockDoubleClick(answer)
    \/ \E tool_name \in {"select", "panel", "text"} : LockSetTool(tool_name)
    \/ \E locked \in BOOLEAN : LockProperties(locked)
    \/ \E image \in Images : LockApplyImage(image)

SpecLock == Init /\ [][NextLock]_vars


-----------------------------------------------------------------------------
(* Project sessions: a project is loaded, its panels are selected, copied,   *)
(* pasted and deleted by every delete command, the page is cleared and it is *)
(* exported with a template                                                  *)

\* The panel lists of the project files at hand: an empty page, and a page
\* of one panel
ProjectFiles ==
    { << >>, << Panel(1, 50, 50, 100, 100, "rectangular", 0) >> }

\* Edit > Copy
CopyPanel ==
    /\ ~pressed
    /\ Apply(copy_panel(S), "copy", FALSE, pointer, FALSE)

\* Edit > Paste, of panels copied no further right than MaxPasteX and below
\* layer MaxLayer
PastePanel ==
    /\ ~pressed
    /\ \A i \in 1..Len(clipboard_panels) :
           /\ clipboard_panels[i].x <= MaxPasteX
           /\ clipboard_panels[i].layer < MaxLayer
    /\ Apply(paste_panel(S), "paste", FALSE, pointer, FALSE)

\* Edit > Delete and the context menu's Delete panel
AppDeletePanel(answer) ==
    /\ ~pressed
    /\ Apply(app_delete_panel(S, answer), "delete", FALSE, pointer, FALSE)

\* PageConstructor.delete_panel called for a live panel
DeletePanel(o, answer) ==
    /\ ~pressed
    /\ o \in Range(panels)
    /\ Apply(delete_panel(S, o, answer), "delete", FALSE, pointer, FALSE)

\* File > New
NewProject ==
    /\ ~pressed
    /\ Apply(new_project(S), "new", FALSE, pointer, FALSE)

\* File > Open
LoadProject(project_panels) ==
    /\ ~pressed
    /\ Apply(load_project(S, project_panels), "load", FALSE, pointer, FALSE)

\* The Export button of the templates dialog, one template chosen
ExportTemplates(answer) ==
    /\ ~pressed
    /\ Apply(export_page_with_multiple_templates(S, FullPage, answer),
             "export", FALSE, pointer, FALSE)

\* The history of a project session is followed up to MaxProjHist snapshots
ShortHistory == Len(undo_stack) + Len(redo_stack) <= MaxProjHist

NextProject ==
    \/ SelectAll
    \/ Undo
    \/ Redo
    \/ DeleteSelected /\ ShortHistory'
    \/ \E answer \in BOOLEAN : AppDeletePanel(answer) /\ ShortHistory'
    \/ \E o \in 1..MaxPanels, answer \in BOOLEAN :
           DeletePanel(o, answer) /\ ShortHistory'
    \/ CopyPanel
    \/ PastePanel /\ ShortHistory'
    \/ NewProject
    \/ \E project_panels \in ProjectFiles : LoadProject(project_panels)
    \/ \E answer \in BOOLEAN : ExportTemplates(answer) /\ ShortHistory'

SpecProject == Init /\ [][NextProject]_vars

\* The project files of the sessions with images: an empty page, and a page
\* of one panel that shows an image
ImageProjectFiles ==
    { << >>,
      << [Panel(1, 50, 50, 100, 100, "rectangular", 0)
             EXCEPT !.content_image = 1] >> }

\* Project sessions with images: the panel of a loaded project is clicked,
\* its content-pan session is opened, and the panel is deleted, the page
\* cleared or another project loaded
NextPanProject ==
    \/ \E pt \in FewPoints : MouseDown(pt, FALSE, "cancel")
    \/ MouseUp
    \/ DoubleClick("cancel")
    \/ Undo
    \/ Redo
    \/ DeleteSelected
    \/ \E answer \in BOOLEAN : AppDeletePanel(answer)
    \/ \E o \in 1..MaxPanels, answer \in BOOLEAN : DeletePanel(o, answer)
    \/ NewProject
    \/ \E project_panels \in ImageProjectFiles : LoadProject(project_panels)

SpecPanProject == Init /\ [][NextPanProject]_vars

\* Long sessions in which, besides, the page is cleared and a project loaded
LongNewProject ==
    /\ ~pressed
    /\ ApplyLong(new_project(S), "new", FALSE, pointer, FALSE)

LongLoadProject(project_panels) ==
    /\ ~pressed
    /\ ApplyLong(load_project(S, project_panels), "load", FALSE, pointer, FALSE)

NextCapProject ==
    \/ NextCap
    \/ LongNewProject
    \/ \E project_panels \in ProjectFiles : LongLoadProject(project_panels)

SpecCapProject == Init /\ [][NextCapProject]_vars


-----------------------------------------------------------------------------
(* Group sessions: a project of two panels side by side is loaded, both are  *)
(* selected and the handles drawn around them are dragged                    *)

\* The panel list of the project file
TwoPanels ==
    << Panel(1, 50, 50, 100, 100, "rectangular", 0),
       Panel(2, 200, 50, 100, 100, "rectangular", 1) >>

NextGroup ==
    \/ LoadProject(TwoPanels)
    \/ SelectAll
    \/ \E pt \in FewPoints \cup HandlePoints : MouseDown(pt, FALSE, "cancel")
    \/ \E pt \in FewPoints : MouseDrag(pt)
    \/ MouseUp

SpecGroup == Init /\ [][NextGroup]_vars

-----------------------------------------------------------------------------
(* Properties of the geometry: Move, Resize, Create *)

\* A panel rectangle lies within the page
InsidePage(p) ==
    /\ 0 <= p.x /\ 0 <= p.y
    /\ p.x + p.width <= page_width
    /\ p.y + p.height <= page_height

\* C1: after every drag step of a Move, each moved panel that fits inside
\* the page lies within it: 0 <= x, 0 <= y, x + width <= page_width,
\* y + height <= page_height, with the grid snap on or off
C1_MovedPanelsStayOnPage ==
    dragging /\ drag_mode = "move" /\ drag_steps > 0 =>
        \A i \in 1..Len(selected_panels) :
            LET p == objs[selected_panels[i]]
            IN  /\ p.id \in DOMAIN panel_drag_initial_states
                /\ p.width <= page_width /\ p.height <= page_height
                => InsidePage(p)

\* C2: after every call of resize_panel_with_handle the panel is at least
\* 20 wide and 20 high and lies within the page
C2_ResizedPanelStaysOnPage ==
    /\ dragging /\ drag_mode = "resize" /\ drag_steps > 0
    /\ selected_panels # << >>
    => LET p == objs[selected_panels[1]]
       IN  /\ p.width >= min_page_size /\ p.height >= min_page_size
           /\ InsidePage(p)

\* A drag step of a Resize gesture
ResizeStep ==
    /\ dragging /\ drag_mode = "resize" /\ selected_panels # << >>
    /\ pressed' /\ drag_steps' = drag_steps + 1

\* C3: a resize changes only the edges its handle names; the edges the handle
\* does not name stay where they were, also when the minimum size or the page
\* bounds take effect (here for a panel that lay within the page and was at
\* least the minimum size before the step)
C3_ResizeMovesOnlyNamedEdges ==
    [][ResizeStep =>
           LET p == objs[selected_panels[1]]
               q == objs'[selected_panels[1]]
               named == handle_letters(resize_handle.handle_type)
           IN  /\ InsidePage(p)
               /\ p.width >= min_page_size /\ p.height >= min_page_size
               => /\ "w" \notin named => q.x = p.x
                  /\ "e" \notin named => q.x + q.width = p.x + p.width
                  /\ "n" \notin named => q.y = p.y
                  /\ "s" \notin named => q.y + q.height = p.y + p.height]_vars

\* The normalized rectangle a Create gesture released now would make:
\* << width, height >>
CreateSize ==
    LET a == screen_to_page(drag_start[1], drag_start[2])
        b == screen_to_page(pointer[1], pointer[2])
        dx == snap_coord(S, a[1]) - snap_coord(S, b[1])
        dy == snap_coord(S, a[2]) - snap_coord(S, b[2])
    IN  << Max(dx, -dx), Max(dy, -dy) >>

\* C6: a Create gesture released on a rectangle less than 20 wide or less
\* than 20 high adds no panel and leaves the undo and redo stacks as they were
C6_SmallCreateAddsNothing ==
    [][/\ pressed /\ ~pressed'
       /\ dragging /\ drag_mode = "create"
       /\ CreateSize[1] < min_page_size \/ CreateSize[2] < min_page_size
       => /\ Len(panels') = Len(panels)
          /\ undo_stack' = undo_stack
          /\ redo_stack' = redo_stack]_vars

-----------------------------------------------------------------------------
(* Properties of the history *)

\* C4: m successful undos followed by m redos leave the live panel list
\* equal, field by field and id by id, to the list just before the first undo
C4_UndoRedoRoundTrip ==
    ur_run.phase = "redoing" /\ ur_run.depth = 0 =>
        DocList(LivePanels) = ur_run.base

\* C5: after Create, Move and Resize gestures each undo leaves the live list
\* equal to what it was when the preceding gesture ended, and each redo
\* brings back the list as it was when the gesture redone ended
C5_UndoRestoresEndOfGesture ==
    status \in {"undone", "redone"} =>
        DocList(LivePanels) = TopOr(hist_ends, << >>)

\* C7: every completed edit is followed by a commit, so whenever no gesture
\* is in progress the top undo snapshot equals the live list field by field
C7_TopSnapshotIsLive ==
    ~pressed /\ ~dragging =>
        DocList(TopOr(undo_stack, << >>)) = DocList(LivePanels)

\* The stack a push of snapshot e onto stack st leaves under the cap
Capped(st, e) ==
    LastN(Append(st, e), MAX_HISTORY_SIZE)

\* C8: the undo stack never holds more than MAX_HISTORY_SIZE snapshots; a
\* commit or a redo that would exceed the cap discards exactly the oldest
\* snapshot and keeps the MAX_HISTORY_SIZE most recent in their order
C8_HistoryCap ==
    [][/\ Len(undo_stack') <= MAX_HISTORY_SIZE
       /\ status' = "committed" =>
              undo_stack' = Capped(undo_stack, LivePanels')
       /\ status' = "redone" =>
              undo_stack' = Capped(undo_stack, Last(redo_stack))]_vars

\* The cap has taken effect: the stack is full, a commit has just been made
\* and the snapshot of the empty page made at construction is gone
C8_Witness ==
    /\ Len(undo_stack) = MAX_HISTORY_SIZE
    /\ status = "committed"
    /\ undo_stack[1] # << >>

\* C9: every commit leaves the redo stack empty and pushes a snapshot equal
\* to the live list, so that a redo right after a commit returns false
C9_CommitClearsRedo ==
    /\ [](LET t == save_history_state(S)
          IN  /\ t.redo_stack = << >>
              /\ Last(t.undo_stack) = LivePanels
              /\ redo(t).returned = "false")
    /\ [][status' = "committed" =>
              /\ redo_stack' = << >>
              /\ redo(S)'.returned = "false"]_vars

\* A commit has just been made over a redo stack that held snapshots
C9_Witness ==
    status = "committed" /\ ur_run.phase = "cut" /\ redo_stack = << >>

\* What a failed undo or redo is to leave alone: the live list, both stacks,
\* the selection, the content-pan session and the render cache
Kept ==
    << objs, panels, undo_stack, redo_stack, selected_panels,
       selection_handles, image_editing_panel, image_pan_start, drag_mode,
       image_tk_cache, pil_image_cache >>

\* C10: undo with fewer than two snapshots and redo with an empty redo stack
\* return false and change nothing of the live list, the stacks, the
\* selection, the content-pan session and the render cache
C10_FailedUndoRedoChangeNothing ==
    [][/\ status' \in {"undone", "nothing_to_undo"} /\ Len(undo_stack) < 2
          => status' = "nothing_to_undo" /\ UNCHANGED Kept
       /\ status' \in {"redone", "nothing_to_redo"} /\ redo_stack = << >>
          => status' = "nothing_to_redo" /\ UNCHANGED Kept]_vars

\* A redo has just failed with a panel selected, its content-pan session
\* open and its image in the render cache
C10_Witness ==
    /\ status = "nothing_to_redo"
    /\ selected_panels # << >>
    /\ image_editing_panel # NoObj
    /\ image_tk_cache # {}

-----------------------------------------------------------------------------
(* Properties of the view after undo and redo, and of the selection *)

\* The keys redraw builds for the live list: one for each visible panel that
\* has an image
DrawnKeys ==
    {cache_key(objs[o]) : o \in {o \in Range(panels) :
        objs[o].visible /\ objs[o].content_image # NoImage}}

\* C11, as stated: after a successful undo or redo no content-pan session is
\* open, the selection list is empty and the render cache has no entry
C11_CacheEmptyAfterUndoRedo ==
    status \in {"undone", "redone"} =>
        /\ image_editing_panel = NoObj
        /\ selected_panels = << >>
        /\ image_tk_cache = {}

\* C11, amended: after a successful undo or redo no content-pan session is
\* open, the selection list is empty, and the render cache holds the keys the
\* closing redraw built for the restored panels and no other entry
C11_ViewResetAfterUndoRedo ==
    status \in {"undone", "redone"} =>
        /\ image_editing_panel = NoObj
        /\ selected_panels = << >>
        /\ selection_handles = << >>
        /\ image_tk_cache = DrawnKeys

\* A redo has just restored a panel with an image, which the redraw cached
C11_Witness ==
    /\ status = "redone"
    /\ image_tk_cache # {}
    /\ \E o \in Range(panels) : objs[o].content_image # NoImage

\* C12: in every reachable state a panel of the live list has selected = true
\* if and only if it is a member of selected_panels
C12_SelectedFlagMatchesList ==
    \A o \in Range(panels) : objs[o].selected <=> In(S, o, selected_panels)

-----------------------------------------------------------------------------
(* Properties of the snapshots as objects *)

\* What a stack of snapshots reads as now: an entry held by a heap object
\* has that object's fields, an entry held by its own copy the fields saved
Stored(refs, stack) ==
    [i \in 1..Len(stack) |->
        [j \in 1..Len(stack[i]) |->
            IF refs[i][j] = OwnCopy THEN stack[i][j] ELSE objs[refs[i][j]]]]

\* Each snapshot has one holder for each of its panels
RefsShaped(refs, stack) ==
    /\ Len(refs) = Len(stack)
    /\ \A i \in 1..Len(stack) : Len(refs[i]) = Len(stack[i])

\* C13: no panel object of a snapshot in the undo or redo stack is an object
\* of the live list or of another snapshot, so that a handler which edits
\* live panels without committing changes no stored snapshot
C13_SnapshotsNeverAliased ==
    /\ [](/\ RefsShaped(undo_refs, undo_stack)
          /\ RefsShaped(redo_refs, redo_stack)
          /\ held(undo_refs) = {}
          /\ held(redo_refs) = {})
    /\ [][status' = "other" /\ objs' # objs =>
              /\ Stored(undo_refs, undo_stack)' = Stored(undo_refs, undo_stack)
              /\ Stored(redo_refs, redo_stack)' = Stored(redo_refs, redo_stack)]_vars

\* After commits and an undo, a Move is dragging a live panel away from the
\* position the snapshots on both stacks hold
C13_Witness ==
    /\ dragging /\ drag_mode = "move" /\ drag_steps > 0
    /\ Len(undo_stack) >= 2
    /\ redo_stack # << >>
    /\ DocList(LivePanels) # DocList(Last(undo_stack))

-----------------------------------------------------------------------------
(* Properties of the export *)

\* What render_page_to_image gives for the page as it was at start_export
FromStart == render_page_to_image(export_start @@ View(S), settings)

\* C14: the worker renders from a deep copy of the panel list taken at
\* export start: whatever the foreground does meanwhile, every placement the
\* render loop computes is the one the page at export start gives
C14_ExportRendersStartSnapshot ==
    export_pc \in {"render", "saved", "done"} =>
        /\ Len(export_out) <= Len(FromStart.out)
        /\ \A k \in 1..Len(export_out) : export_out[k] = FromStart.out[k]

\* C15: once the cancellation flag is set with no output file saved, the
\* worker stops at the next panel and no step of the export saves a file
C15_CancelLeavesNoFile ==
    [][cancel_export /\ export_file = "none" =>
           /\ export_file' = "none"
           /\ export_k' = export_k]_vars

\* C16: an export in which a computed pixel dimension is zero or negative
\* (the page size, or a visible panel's width or height) ends with an error
\* and saves no file
C16_BadDimensionAborts ==
    /\ export_pc \in {"saved", "done"}
    /\ \/ export_image = NoPage
       \/ \E k \in 1..Len(export_out) : export_out[k].w <= 0 \/ export_out[k].h <= 0
    => export_file = "none" /\ progress # "completed"

\* Interactive zoom factors
Zooms == {1, 2}

\* C17: the image size and the placement of every panel are the same for
\* editor states that agree on the page size and the panel list, whatever
\* the zoom, the tool, the drag mode, the selection list and the render
\* cache are, under every choice of export settings
C17_ExportIgnoresEditorView ==
    \A st \in SettingsChoices, z \in Zooms, tool \in {"select", "panel"},
       mode \in {NoneMode, "move", "create"} :
        render_page_to_image(
            [View(S) EXCEPT !.zoom = z, !.current_tool = tool,
                            !.drag_mode = mode, !.dragging = mode # NoneMode,
                            !.selected_panels = << >>,
                            !.selection_handles = << >>,
                            !.image_tk_cache = {}, !.pil_image_cache = {}], st)
        = render_page_to_image(View(S), st)

\* The worker has placed a panel and saved the file while the foreground is
\* in a Move with the panel selected
C17_Witness ==
    /\ export_pc = "saved"
    /\ \E k \in 1..Len(export_out) : export_out[k].drawn
    /\ dragging /\ drag_mode = "move" /\ selected_panels # << >>

-----------------------------------------------------------------------------
(* Locked panels *)

\* The text and the image content of a panel
Content(p) ==
    << p.content_text, p.content_image, p.image_offset_x, p.image_offset_y,
       p.image_scale >>

\* C18: for a locked panel, an edit of its text or of its image content (the
\* text dialog, applying an image, a double click, panning the image) leaves
\* content_text, content_image, the image offset and the image scale as they
\* were, and applying an image to it or double-clicking it pushes no snapshot
C18_LockedPanelContentFrozen ==
    /\ [](\A o \in Range(panels) : objs[o].locked =>
            /\ selected_panels # << >> /\ selected_panels[1] = o =>
                   \A image \in Images :
                       apply_image_to_panel(S, image).undo_stack = undo_stack
            /\ \A answer \in Answers :
                   on_double_click(S, page_to_screen(objs[o].x, objs[o].y)[1],
                                   page_to_screen(objs[o].x, objs[o].y)[2],
                                   answer).undo_stack = undo_stack)
    /\ [][\A o \in Range(panels) : objs[o].locked =>
              \A q \in Range(panels') :
                  objs'[q].id = objs[o].id /\ objs'[q].locked =>
                      Content(objs'[q]) = Content(objs[o])]_vars

-----------------------------------------------------------------------------
(* Coordinate conversions *)

\* screen_to_page(page_to_screen(q)) = q at the view v
RoundTrip(v, q) ==
    LET sc == page_to_screen_at(v, Whole(q[1]), Whole(q[2]))
        back == screen_to_page_at(v, sc[1], sc[2])
    IN  RatEq(back[1], Whole(q[1])) /\ RatEq(back[2], Whole(q[2]))

Shifted(v, q) ==
    << RatAdd(Whole(q[1]), RatDiv(Whole(v.xview), v.zoom)),
       RatAdd(Whole(q[2]), RatDiv(Whole(v.yview), v.zoom)) >>

\* screen_to_page(page_to_screen(q)) at the view v is q shifted by the scroll
ShiftedRoundTrip(v, q) ==
    LET sc == page_to_screen_at(v, Whole(q[1]), Whole(q[2]))
        back == screen_to_page_at(v, sc[1], sc[2])
    IN  /\ RatEq(back[1], Shifted(v, q)[1]) /\ RatEq(back[2], Shifted(v, q)[2])
        /\ v.xview = 0 => RatEq(back[1], Whole(q[1]))
        /\ v.yview = 0 => RatEq(back[2], Whole(q[2]))

-----------------------------------------------------------------------------
(* Pointer motion and the history *)

\* The two stacks, with the objects that hold their snapshots
History == << undo_stack, redo_stack, undo_refs, redo_refs >>

\* C20: a pointer-motion event, whatever the gesture (Move, Resize, Create,
\* the tail or the tail root of a bubble, the pan of an image, the selection
\* area), leaves the undo stack and the redo stack as they were
C20_MotionLeavesHistory ==
    /\ [](\A pt \in TailTargets :
             LET t == on_mouse_drag(S, pt[1], pt[2])
             IN  /\ t.undo_stack = undo_stack /\ t.redo_stack = redo_stack
                 /\ t.commits = 0)
    /\ [][pressed /\ drag_steps' = drag_steps + 1 => History' = History]_vars

\* The root of a bubble's tail has been dragged a quarter turn while a
\* snapshot waits on the redo stack
C20_Witness ==
    /\ dragging /\ drag_mode = "move_tail_root" /\ drag_steps > 0
    /\ redo_stack # << >>
    /\ \E o \in Range(panels) : objs[o].tail_root_angle # HalfPi

-----------------------------------------------------------------------------
(* A press while a content-pan session is open *)

\* Where a press may land: the corners of the first bubble, the points right
\* of and above its centre, and the tail handles
PressPoints == TailTargets \cup TailPoints

\* The editor with the content-pan session closed and the live panels pushed
\* as one snapshot
SessionClosed ==
    [S EXCEPT !.image_editing_panel = NoObj,
              !.undo_stack = Append(undo_stack, LivePanels),
              !.undo_refs = Append(undo_refs, own_copies(Len(panels))),
              !.redo_stack = << >>,
              !.redo_refs = << >>]

\* C21: while a content-pan session is open, a press inside the session's
\* panel (its border included) starts a pan, keeps the session and pushes no
\* snapshot; a press anywhere else closes the session, pushes exactly one
\* snapshot of the panels as they are, and is then handled as a press with no
\* session open
C21_PressInPanSession ==
    image_editing_panel # NoObj /\ ~pressed =>
        \A pt \in PressPoints :
            LET pg == screen_to_page(pt[1], pt[2])
                p == objs[image_editing_panel]
                t == on_mouse_down(S, pt[1], pt[2], FALSE, "cancel")
                inside == /\ p.x <= pg[1] /\ pg[1] <= p.x + p.width
                          /\ p.y <= pg[2] /\ pg[2] <= p.y + p.height
            IN  IF inside
                THEN /\ t.dragging /\ t.drag_mode = "pan_image"
                     /\ t.image_editing_panel = image_editing_panel
                     /\ t.undo_stack = undo_stack /\ t.redo_stack = redo_stack
                     /\ t.commits = 0
                ELSE /\ t.image_editing_panel = NoObj
                     /\ t.undo_stack = Append(undo_stack, LivePanels)
                     /\ t.commits = 1
                     /\ [t EXCEPT !.commits = 0] =
                            on_mouse_down(SessionClosed, pt[1], pt[2], FALSE, "cancel")

\* A press outside every panel has closed the open session of a panel with
\* an image, and pushed a snapshot
C21_Witness ==
    /\ pressed /\ status = "committed"
    /\ image_editing_panel = NoObj
    /\ \E o \in Range(panels) : objs[o].content_image # NoImage
    /\ find_panel_at_point(S, screen_to_page(pointer[1], pointer[2])[1],
                           screen_to_page(pointer[1], pointer[2])[2]) = NoObj

-----------------------------------------------------------------------------
(* Hit test *)

\* The visible panel redraw paints last among those that contain the page
\* point, or NoObj
topmost_painted(s, px, py) ==
    LET ord == paint_order(s)
        ks == {k \in 1..Len(ord) :
                  /\ s.objs[s.panels[ord[k]]].visible
                  /\ contains_point(s.objs[s.panels[ord[k]]], px, py)}
    IN  IF ks = {} THEN NoObj ELSE s.panels[ord[SetMax(ks)]]

\* C22: find_panel_at_point returns the visible panel that contains the
\* point and is painted last by redraw, also among panels of one layer, and
\* None where no visible panel contains the point
C22_HitTestFindsTopmostPainted ==
    \A q \in PagePoints :
        find_panel_at_point(S, q[1], q[2]) = topmost_painted(S, q[1], q[2])

-----------------------------------------------------------------------------
(* Create gestures *)

\* The normalized rectangle a Create gesture released now would make:
\* << x, y, width, height >>
CreateRect ==
    LET a == screen_to_page(drag_start[1], drag_start[2])
        b == screen_to_page(pointer[1], pointer[2])
        x1 == Min(snap_coord(S, a[1]), snap_coord(S, b[1]))
        y1 == Min(snap_coord(S, a[2]), snap_coord(S, b[2]))
    IN  << x1, y1, CreateSize[1], CreateSize[2] >>

\* A step that releases a Create gesture whose rectangle has the minimum size
CreateReleased ==
    /\ pressed /\ ~pressed'
    /\ dragging /\ drag_mode = "create"
    /\ CreateSize[1] >= min_page_size /\ CreateSize[2] >= min_page_size

\* What a released Create gesture adds, but for the content of the snapshot
CreateAddsOnePanel ==
    LET new == Last(LivePanels')
    IN  /\ Len(panels') = Len(panels) + 1
        /\ DocList(Front(LivePanels')) = DocList(LivePanels)
        /\ new.panel_type = (IF creation_panel_type # "none"
                             THEN creation_panel_type ELSE "rectangular")
        /\ << new.x, new.y, new.width, new.height >> = CreateRect
        /\ \A i \in 1..Len(panels) : LivePanels[i].layer < new.layer
        /\ selected_panels' = << Last(panels') >>
        /\ Len(undo_stack') = Len(undo_stack) + 1
        /\ Front(undo_stack') = undo_stack

\* C23: a Create gesture released on a rectangle of the minimum size adds
\* one panel of the requested variant at that rectangle, on a layer above
\* every other panel, selects it alone and pushes one snapshot, which holds
\* the new panel with the fields it has when the gesture is finished, the
\* default text of a speech bubble among them
C23_CreatePushesFinishedPanel ==
    [][CreateReleased =>
          /\ CreateAddsOnePanel
          /\ DocList(Last(undo_stack')) = DocList(LivePanels')]_vars

-----------------------------------------------------------------------------
(* Tools *)

\* No panel is under the screen point
OffPanels(pt) ==
    find_panel_at_point(S, screen_to_page(pt[1], pt[2])[1],
                        screen_to_page(pt[1], pt[2])[2]) = NoObj

\* The Text tool: a press on no panel leaves the select tool active
TextPressReverts ==
    /\ ~pressed /\ pressed'
    /\ current_tool = "text" /\ OffPanels(pointer')
    => current_tool' = "select"

\* The creating tools: the release of a gesture pressed on no panel leaves
\* the select tool active
CreateReleaseReverts ==
    /\ pressed /\ ~pressed'
    /\ current_tool \in {"panel", "speech"} /\ OffPanels(drag_start)
    => current_tool' = "select"

\* C24: with the panel, speech or text tool, a gesture whose press point is
\* on no panel ends with the select tool active
C24_GestureOffPanelsRevertsTool ==
    [][TextPressReverts /\ CreateReleaseReverts]_vars

-----------------------------------------------------------------------------
(* Render cache *)

\* The render-cache keys that start with the id of panel p
KeysOf(s, p) == {k \in s.image_tk_cache : k.id = p.id}

\* C25: a repaint drops, for every visible panel whose dirty flag is set, the
\* render-cache entries made before under the panel's id and clears the
\* flag, so that after it no visible panel has the flag set
C25_RepaintClearsFlags ==
    \A o \in Range(panels) :
        objs[o].visible /\ objs[o].flag =>
            /\ ~redraw(S).objs[o].flag
            /\ KeysOf(redraw(S), objs[o]) \subseteq {cache_key(objs[o])}

-----------------------------------------------------------------------------
(* The two stacks of the history together *)

\* The undo stack is not empty and the two stacks together are within the cap
HistoryWithinCap ==
    /\ Len(undo_stack) >= 1
    /\ Len(undo_stack) + Len(redo_stack) <= MAX_HISTORY_SIZE

\* C26: the undo stack always holds a snapshot and the undo and redo stacks
\* together never hold more than MAX_HISTORY_SIZE, so a redo pushes onto the
\* undo stack without discarding its oldest snapshot
C26_HistoryWithinCap ==
    /\ HistoryWithinCap
    /\ [][/\ HistoryWithinCap'
          /\ status' = "redone" =>
                 undo_stack' = Append(undo_stack, Last(redo_stack))]_vars

\* A redo has filled the undo stack to the cap
C26_Witness ==
    /\ status = "redone"
    /\ Len(undo_stack) = MAX_HISTORY_SIZE
    /\ undo_stack[1] # << >>

-----------------------------------------------------------------------------
(* References into the live collection *)

\* C27: every panel of the selection list is, as an object, an element of
\* the live panel collection
C27_SelectedPanelsAreLive ==
    \A i \in 1..Len(selected_panels) : selected_panels[i] \in Range(panels)

\* C28: while a content-pan session is open its panel is, as an object, an
\* element of the live panel collection
C28_PanSessionPanelIsLive ==
    image_editing_panel # NoObj => image_editing_panel \in Range(panels)

-----------------------------------------------------------------------------
(* Resize with several panels selected *)

\* The rectangle of a panel
Rect(p) == << p.x, p.y, p.width, p.height >>

\* C29: a motion of a Resize gesture changes the geometry of no panel but
\* the selected panel the pressed handle was drawn for
C29_ResizeOnlyHandleOwner ==
    [][ResizeStep =>
          \A i \in 1..Len(panels) :
              Rect(LivePanels'[i]) # Rect(LivePanels[i]) =>
                  LivePanels[i].id = resize_handle.owner]_vars

-----------------------------------------------------------------------------
(* The caches after a delete *)

\* The ids of the panels a step takes out of the live collection
Gone ==
    {LivePanels[i].id : i \in 1..Len(panels)}
        \ {LivePanels'[i].id : i \in 1..Len(panels')}

\* A step of one of the delete commands: it removes panels and pushes a
\* snapshot onto the history as it was
DeleteStep ==
    /\ Gone # {}
    /\ status' = "committed"
    /\ Len(undo_stack') = Len(undo_stack) + 1

\* C30: after a delete command has removed a panel neither the render cache
\* nor the decoded-image cache holds an entry for the panel's id
C30_DeleteClearsCaches ==
    [][DeleteStep =>
          \A id \in Gone :
              /\ id \notin pil_image_cache'
              /\ \A k \in image_tk_cache' : k.id # id]_vars

====
